---- MODULE Spec2Model ----
(***************************************************************************)
(* A model of the Council orchestration layer of ai-roundtable:            *)
(*   - CouncilGateway.call_model        (scripts/gateway.py)               *)
(*   - ParallelExecutor._execute_model  (scripts/parallel_executor.py)     *)
(*   - ParallelExecutor.execute_parallel                                   *)
(*   - DiamondOrchestrator.execute_diamond / execute_diamond_debate        *)
(*   - OpusGatekeeper.should_invoke_opus (scripts/opus_gatekeeper.py)      *)
(*   - DiamondCostPredictor.check_budget_reservation                       *)
(*                                   (dashboard/backend/diamond_cost_      *)
(*                                    predictor.py)                        *)
(* The backend (the LiteLLM gateway endpoint) is the environment: every    *)
(* request ends in one of the outcomes of Outcomes, chosen freely.         *)
(***************************************************************************)
EXTENDS Integers, Sequences, FiniteSets, TLC

VARIABLES
    gw,             \* CouncilGateway.call_model: the running call
    skillsImported, \* parallel_executor.py:29-43: did the package import succeed
    max_workers,    \* ParallelExecutor.max_workers
    calls,          \* worker -> the _execute_model call it runs
    pool,           \* ParallelExecutor.execute_parallel: the running stage
    orch,           \* DiamondOrchestrator: the running protocol
    gate,           \* OpusGatekeeper: the last decision of should_invoke_opus
    estimate,       \* DiamondCostPredictor: the last CostEstimate
    budget,         \* monthly_budget / current_monthly_spend
    query,          \* the query the caller is handling
    tracker,        \* DashboardTracker: queue, database and flushing threads
    rollback,       \* RollbackStore: the states saved per session
    mode,           \* the running mode function: refine, brainstorm, ...
    faults          \* number of requests that have failed so far (history)

vars == <<gw, skillsImported, max_workers, calls, pool, orch, gate, estimate,
          budget, query, tracker, rollback, mode, faults>>

None == "None"

(***************************************************************************)
(* Bounds of the model.                                                    *)
(***************************************************************************)
\* The interpreter's recursion limit, counted in nested model calls: a call
\* nested RecursionLimit deep raises RecursionError inside its try body.
RecursionLimit == 3
\* A run of the debate protocol is followed through at most MaxFaults
\* failing requests. A run of the diamond protocol is followed through at
\* most MaxStageFaults failing requests when its caller consulted the cost
\* predictor or the gatekeeper first, and through at most MaxDiamondFaults
\* when the caller runs the protocol directly.
MaxFaults == 3
MaxStageFaults == 1
MaxDiamondFaults == 4

(***************************************************************************)
(* models.py: the fallback table.                                          *)
(***************************************************************************)
MODEL_FALLBACKS ==
    ("gemini-flash" :> "gemini-flash-fallback") @@
    ("gemini-flash-latest" :> "gemini-flash") @@
    ("deepseek-v3" :> "gemini-flash") @@
    ("kimi-researcher" :> "kimi-synthesis") @@
    ("kimi-synthesis" :> "claude-sonnet") @@
    ("kimi-deep" :> "kimi-synthesis") @@
    ("claude-sonnet" :> "opus-synthesis") @@
    ("opus-synthesis" :> "claude-sonnet") @@
    ("gemini-architect" :> "gemini-flash") @@
    ("gemini-3-pro-semifinal" :> "claude-sonnet") @@
    ("gemini-pro" :> "claude-sonnet") @@
    ("gemini-pro-latest" :> "gemini-pro") @@
    ("perplexity-online" :> "gemini-flash") @@
    ("perplexity-researcher" :> "gemini-flash")

\* a lookup that answers a default alias for an alias without entry
FallbackOfOrDefault(table, model) ==
    IF model \in DOMAIN table THEN table[model] ELSE "gemini-flash"

\* dict.get(model): the entry, or None
FallbackOf(table, model) ==
    IF model \in DOMAIN table THEN table[model] ELSE None

\* Every alias the table mentions; "gemini-flash-fallback" has no entry.
Aliases == DOMAIN MODEL_FALLBACKS \cup { MODEL_FALLBACKS[m] : m \in DOMAIN MODEL_FALLBACKS }

\* The outcomes of one HTTP request to the backend:
\*   ok         200 with choices[0].message.content
\*   timeout    requests.exceptions.Timeout
\*   reqfail    another requests.exceptions.RequestException
\*              (connection refused, non-2xx from raise_for_status)
\*   malformed  200, parses as JSON, lacks the content field (KeyError...)
\*   other      any other exception raised in the try body
Outcomes == {"ok", "timeout", "reqfail", "malformed", "other"}
Failures == Outcomes \ {"ok"}

(***************************************************************************)
(* CouncilGateway.call_model (gateway.py:39-158).                          *)
(*                                                                         *)
(* gw.pc         "idle" | "request" (about to post attempt gw.attempt to   *)
(*               gw.model) | "done"                                        *)
(* gw.requested  the alias the caller asked for                            *)
(* gw.model      the alias of the running (possibly recursive) call        *)
(* gw.depth      how many fallback calls are nested                        *)
(* gw.log        history: the requests posted, in order                    *)
(* gw.result     the dict returned to the caller                           *)
(***************************************************************************)
max_retries == 2
default_timeout == 120

\* The timeout arguments tried: 0 stands for None (and for 0, equally falsy).
TimeoutArgs == {0, 30}

GatewayIdle ==
    [pc |-> "idle", requested |-> None, model |-> None, attempt |-> 0,
     timeout |-> 0, depth |-> 0, log |-> <<>>, result |-> None]

\* The dicts call_model returns. The dict has no fallback_used key, whoever
\* answered: result.get("fallback_used") is None.
GatewayResponse(success, model, error) ==
    [success |-> success, model |-> model, error |-> error,
     fallback_used |-> None]

GatewayPost(outcome) ==
    Append(gw.log, [model |-> gw.model, timeout |-> gw.timeout,
                    attempt |-> gw.attempt, outcome |-> outcome])

GatewayReturn(outcome, response) ==
    gw' = [gw EXCEPT !.pc = "done", !.log = GatewayPost(outcome),
                     !.result = response]

\* gateway.py:67: timeout = timeout or self.default_timeout
call_model(model, timeout) ==
    /\ gw.pc = "idle"
    /\ gw' = [gw EXCEPT !.pc = "request", !.requested = model,
                        !.model = model, !.attempt = 0,
                        !.timeout = IF timeout = 0 THEN default_timeout
                                    ELSE timeout]
    /\ UNCHANGED <<skillsImported, tracker, rollback, mode, max_workers,
                   calls, pool, orch, gate, estimate, budget, query, faults>>

GatewayCanPost == gw.pc = "request" /\ gw.depth < RecursionLimit

\* gateway.py:83-110: the request succeeds and carries the content
GatewaySuccess ==
    /\ GatewayCanPost
    /\ GatewayReturn("ok", GatewayResponse(TRUE, gw.model, None))
    /\ UNCHANGED <<skillsImported, tracker, rollback, mode, max_workers,
                   calls, pool, orch, gate, estimate, budget, query, faults>>

\* gateway.py:93-102: the response parses but lacks the content field
GatewayInvalidFormat ==
    /\ GatewayCanPost
    /\ GatewayReturn("malformed",
                     GatewayResponse(FALSE, gw.model, "Invalid response format"))
    /\ UNCHANGED <<skillsImported, tracker, rollback, mode, max_workers,
                   calls, pool, orch, gate, estimate, budget, query, faults>>

\* a retry loop that runs once more
GatewayTimeoutRetriesOnceMore(attempt) == attempt <= max_retries

\* gateway.py:112-121: retry the same model while attempt < max_retries
GatewayTimeoutRetries(attempt) == attempt < max_retries

GatewayTimeout ==
    /\ GatewayCanPost
    /\ IF GatewayTimeoutRetries(gw.attempt)
       THEN gw' = [gw EXCEPT !.attempt = gw.attempt + 1,
                             !.log = GatewayPost("timeout")]
       ELSE GatewayReturn("timeout",
                          GatewayResponse(FALSE, gw.model, "Request timeout"))
    /\ UNCHANGED <<skillsImported, tracker, rollback, mode, max_workers,
                   calls, pool, orch, gate, estimate, budget, query, faults>>

\* a fallback taken whatever the attempt
GatewayTakesFallbackAnyAttempt(model, attempt) ==
    FallbackOf(MODEL_FALLBACKS, model) # None /\ attempt >= 0

\* gateway.py:125-126: fallback and attempt == 0
GatewayTakesFallback(model, attempt) ==
    FallbackOf(MODEL_FALLBACKS, model) # None /\ attempt = 0

\* gateway.py:123-141: any other RequestException. The fallback call is a
\* tail call: what it returns is returned unchanged.
GatewayRequestException ==
    /\ GatewayCanPost
    /\ IF GatewayTakesFallback(gw.model, gw.attempt)
       THEN gw' = [gw EXCEPT !.model = FallbackOf(MODEL_FALLBACKS, gw.model),
                             !.attempt = 0,
                             !.depth = gw.depth + 1,
                             !.log = GatewayPost("reqfail")]
       ELSE GatewayReturn("reqfail",
                          GatewayResponse(FALSE, gw.model, "Request failed"))
    /\ UNCHANGED <<skillsImported, tracker, rollback, mode, max_workers,
                   calls, pool, orch, gate, estimate, budget, query, faults>>

\* gateway.py:143-150: any other exception
GatewayUnexpectedError ==
    /\ GatewayCanPost
    /\ GatewayReturn("other",
                     GatewayResponse(FALSE, gw.model, "Unexpected error"))
    /\ UNCHANGED <<skillsImported, tracker, rollback, mode, max_workers,
                   calls, pool, orch, gate, estimate, budget, query, faults>>

\* The call nested RecursionLimit deep: posting needs further frames, so
\* RecursionError is raised in the try body (gateway.py:83) before a request
\* leaves, and the handler of gateway.py:143-150 turns it into a response.
GatewayRecursionError ==
    /\ gw.pc = "request" /\ gw.depth >= RecursionLimit
    /\ gw' = [gw EXCEPT !.pc = "done",
                        !.result = GatewayResponse(FALSE, gw.model,
                                                   "Unexpected error")]
    /\ UNCHANGED <<skillsImported, tracker, rollback, mode, max_workers,
                   calls, pool, orch, gate, estimate, budget, query, faults>>

GatewayNext ==
    \/ \E model \in Aliases, timeout \in TimeoutArgs : call_model(model, timeout)
    \/ GatewaySuccess
    \/ GatewayInvalidFormat
    \/ GatewayTimeout
    \/ GatewayRequestException
    \/ GatewayUnexpectedError
    \/ GatewayRecursionError

(***************************************************************************)
(* ParallelExecutor._execute_model (parallel_executor.py:182-307).         *)
(*                                                                         *)
(* parallel_executor.py:29-43 imports MODEL_FALLBACKS and PerplexityWrapper*)
(* from the package skills.council.scripts; when that import fails the     *)
(* module runs with MODEL_FALLBACKS = {} and without a Perplexity wrapper. *)
(* skillsImported says which of the two happened.                          *)
(*                                                                         *)
(* calls[w].pc     "idle" | "request" (the top frame is about to post)     *)
(*                 | "done"                                                *)
(* calls[w].model  the alias the call was made for                         *)
(* calls[w].stack  the nested _execute_model frames, outermost first; a    *)
(*                 frame is [model, handler], handler the except clause    *)
(*                 from which it called the next frame ("none" on top)     *)
(* calls[w].result the ModelResponse returned, or the exception raised     *)
(* calls[w].usage  history: the usage object of the answer the call ended  *)
(*                 with, "absent" or "given"                               *)
(***************************************************************************)
Workers == 1..3

\* parallel_executor.py:31 / 36
ExecutorFallbacks ==
    IF skillsImported THEN MODEL_FALLBACKS ELSE [m \in {} |-> None]

CallIdle ==
    [pc |-> "idle", model |-> None, timeout |-> 0, stack |-> <<>>,
     result |-> None, usage |-> None]

\* parallel_executor.py:156
DEFAULT_TIMEOUT == 120

\* parallel_executor.py:203 and 271: time.time() - start_time of the frame
\* that returns. Every request is taken to last one second.
RequestSeconds == 1

\* parallel_executor.py:47-57. Costs are in units of 10^-9 dollars. Built
\* with the three arguments the failed responses of the code pass; cost and
\* tokens_used keep their defaults.
ModelResponse(model, success, error) ==
    [kind |-> "response", model |-> model, success |-> success,
     latency_seconds |-> RequestSeconds, cost |-> 0, tokens_used |-> 0,
     error |-> error, fallback_used |-> None]

Raised(error) ==
    [kind |-> "raised", model |-> None, success |-> FALSE,
     latency_seconds |-> 0, cost |-> 0, tokens_used |-> 0,
     error |-> error, fallback_used |-> None]

\* The "usage" object of a backend answer: absent, or with its three counts
NoUsage ==
    [given |-> FALSE, prompt_tokens |-> 0, completion_tokens |-> 0,
     total_tokens |-> 0]

SomeUsage ==
    [given |-> TRUE, prompt_tokens |-> 1000, completion_tokens |-> 500,
     total_tokens |-> 1500]

Usages == {NoUsage, SomeUsage}

\* parallel_executor.py:313-320: dollars per million tokens, times 1000
pricing ==
    ("claude-sonnet" :> <<3000, 15000>>) @@
    ("deepseek-v3" :> <<270, 1100>>) @@
    ("gemini-flash" :> <<75, 300>>) @@
    ("kimi-researcher" :> <<1200, 12000>>) @@
    ("gemini-pro" :> <<75, 300>>) @@
    ("opus-synthesis" :> <<15000, 75000>>)

\* an estimate that charges nothing for an alias without a price
EstimateCostOrNothing(model, prompt_tokens, completion_tokens) ==
    IF model \in DOMAIN pricing
    THEN prompt_tokens * pricing[model][1]
         + completion_tokens * pricing[model][2]
    ELSE 0

\* parallel_executor.py:309-326: _estimate_cost; 0.01 dollars by default
estimate_cost(model, prompt_tokens, completion_tokens) ==
    IF model \in DOMAIN pricing
    THEN prompt_tokens * pricing[model][1]
         + completion_tokens * pricing[model][2]
    ELSE 10000000

\* parallel_executor.py:262-276: usage = data.get("usage", {}) and the
\* response built from it
SuccessResponse(model, usage) ==
    [ModelResponse(model, TRUE, None) EXCEPT
        !.tokens_used = IF usage.given THEN usage.total_tokens ELSE 0,
        !.cost = estimate_cost(model,
                     IF usage.given THEN usage.prompt_tokens ELSE 0,
                     IF usage.given THEN usage.completion_tokens ELSE 0)]

\* perplexity_wrapper.py:219-230: the answer of "sonar-medium-online" or
\* "sonar-small-online"; an answer of 400 characters counts 100 tokens
PerplexityResponse(model) ==
    [ModelResponse(model, TRUE, None) EXCEPT
        !.tokens_used = 400 \div 4,
        !.cost = IF model = "perplexity-researcher" THEN 1000000
                 ELSE 2000000]

Frame(model) == [model |-> model, handler |-> "none"]

Top(stack) == stack[Len(stack)]

\* parallel_executor.py:207: model.startswith("perplexity-") and self.perplexity
IsPerplexity(model) ==
    model \in {"perplexity-online", "perplexity-researcher"} /\ skillsImported

\* parallel_executor.py:296-299: what the handler of frame i does with the
\* result of the frame above it. The Timeout handler (282) returns it as it
\* is; an exception passes through both.
TagFallback(frame, fallback, result) ==
    IF result.kind = "raised" \/ frame.handler = "Timeout"
    THEN result
    ELSE [result EXCEPT !.fallback_used = frame.model,
                        !.model = frame.model \o " (via " \o fallback \o ")"]

\* The result of frame i+1 travelling down to the caller of frame 1.
RECURSIVE Unwind(_, _, _)
Unwind(stack, i, result) ==
    IF i = 0 THEN result
    ELSE Unwind(stack, i - 1, TagFallback(stack[i], stack[i + 1].model, result))

ExecutorReturn(w, result) ==
    calls' = [calls EXCEPT ![w].pc = "done",
                           ![w].result = Unwind(calls[w].stack,
                                                Len(calls[w].stack) - 1,
                                                result)]

\* the recursive call of parallel_executor.py:282 / 296
ExecutorCallFallback(w, handler, fallback) ==
    LET stack == calls[w].stack
        n == Len(stack)
    IN calls' = [calls EXCEPT ![w].stack =
                     Append([stack EXCEPT ![n].handler = handler],
                            Frame(fallback))]

\* parallel_executor.py:281 / 295: fallback and fallback != model
ExecutorTakesFallback(model, fallback) ==
    fallback # None /\ fallback # model

\* The entry of _execute_model for worker w.
\* timeout 0 stands for None: timeout = timeout or self.default_timeout
execute_model(w, model, timeout) ==
    /\ calls[w].pc = "idle"
    /\ calls' = [calls EXCEPT ![w] = [pc |-> "request", model |-> model,
                                      timeout |-> IF timeout = 0
                                                  THEN DEFAULT_TIMEOUT
                                                  ELSE timeout,
                                      stack |-> <<Frame(model)>>,
                                      result |-> None, usage |-> None]]

\* A single call or stage is followed whatever fails; a protocol run is
\* followed up to its bound of failing requests.
FaultAllowed ==
    \/ orch.pc = "idle"
    \/ orch.pc \in {"architect", "auditor", "contextualist", "judge"}
          /\ faults < MaxFaults
    \/ orch.pc \in {"context", "deliberation", "synthesis", "ratification"}
          /\ faults < (IF query.asks = {} THEN MaxDiamondFaults
                       ELSE MaxStageFaults)

ExecutorCanPost(w) ==
    /\ calls[w].pc = "request"
    /\ Len(calls[w].stack) <= RecursionLimit
    /\ ~IsPerplexity(Top(calls[w].stack).model)

\* The usage objects followed: both in a single call, the full one in the
\* calls of a stage or of a protocol run.
UsagesFollowed ==
    IF orch.pc = "idle" /\ pool.pc = "idle" THEN Usages ELSE {SomeUsage}

\* parallel_executor.py:253-276
ExecuteModelSuccess(w) ==
    /\ ExecutorCanPost(w)
    /\ \E usage \in UsagesFollowed :
          calls' = [calls EXCEPT
                      ![w].pc = "done",
                      ![w].result =
                          Unwind(calls[w].stack, Len(calls[w].stack) - 1,
                                 SuccessResponse(Top(calls[w].stack).model,
                                                 usage)),
                      ![w].usage = IF usage.given THEN "given" ELSE "absent"]
    /\ UNCHANGED faults
    /\ UNCHANGED <<gw, skillsImported, tracker, rollback, mode, max_workers,
                   pool, orch, gate, estimate, budget, query>>

\* parallel_executor.py:278-290
ExecuteModelTimeout(w) ==
    /\ ExecutorCanPost(w)
    /\ LET model == Top(calls[w].stack).model
           fallback == FallbackOf(ExecutorFallbacks, model)
       IN IF ExecutorTakesFallback(model, fallback)
          THEN ExecutorCallFallback(w, "Timeout", fallback)
          ELSE ExecutorReturn(w, [ModelResponse(model, FALSE, "Timeout")
                                    EXCEPT !.latency_seconds =
                                               calls[w].timeout])
    /\ FaultAllowed
    /\ faults' = faults + 1
    /\ UNCHANGED <<gw, skillsImported, tracker, rollback, mode, max_workers,
                   pool, orch, gate, estimate, budget, query>>

\* parallel_executor.py:292-307: every other exception of the try body:
\* a RequestException (cause "reqfail"), the KeyError of line 262 on a
\* response without the content field ("malformed"), anything else ("other")
ExecuteModelException(w, cause) ==
    /\ ExecutorCanPost(w)
    /\ LET model == Top(calls[w].stack).model
           fallback == FallbackOf(ExecutorFallbacks, model)
       IN IF ExecutorTakesFallback(model, fallback)
          THEN ExecutorCallFallback(w, "Exception", fallback)
          ELSE ExecutorReturn(w, ModelResponse(model, FALSE, cause))
    /\ FaultAllowed
    /\ faults' = faults + 1
    /\ UNCHANGED <<gw, skillsImported, tracker, rollback, mode, max_workers,
                   pool, orch, gate, estimate, budget, query>>

ExecuteModelRequestFailed(w) == ExecuteModelException(w, "reqfail")
ExecuteModelMalformed(w) == ExecuteModelException(w, "malformed")
ExecuteModelOtherError(w) == ExecuteModelException(w, "other")

\* The frame nested RecursionLimit deep: RecursionError is raised in its try
\* body and caught at parallel_executor.py:292. With a fallback to call, the
\* call of line 296 is made from inside the handler one frame deeper still,
\* where RecursionError is raised again and now leaves every frame below.
\* Without a fallback the handler returns a failed response (301-307).
ExecuteModelRecursionError(w) ==
    /\ calls[w].pc = "request"
    /\ Len(calls[w].stack) > RecursionLimit
    /\ LET model == Top(calls[w].stack).model
           fallback == FallbackOf(ExecutorFallbacks, model)
       IN IF ExecutorTakesFallback(model, fallback)
          THEN calls' = [calls EXCEPT ![w].pc = "done",
                                      ![w].result = Raised("RecursionError")]
          ELSE ExecutorReturn(w, ModelResponse(model, FALSE, "RecursionError"))
    /\ UNCHANGED faults
    /\ UNCHANGED <<gw, skillsImported, tracker, rollback, mode, max_workers,
                   pool, orch, gate, estimate, budget, query>>

\* parallel_executor.py:207-228: the direct Perplexity search succeeds
ExecuteModelPerplexity(w) ==
    /\ calls[w].pc = "request"
    /\ IsPerplexity(Top(calls[w].stack).model)
    /\ ExecutorReturn(w, PerplexityResponse(Top(calls[w].stack).model))
    /\ UNCHANGED faults
    /\ UNCHANGED <<gw, skillsImported, tracker, rollback, mode, max_workers,
                   pool, orch, gate, estimate, budget, query>>

\* parallel_executor.py:229-236: the search raises; no fallback is tried
ExecuteModelPerplexityError(w) ==
    /\ calls[w].pc = "request"
    /\ IsPerplexity(Top(calls[w].stack).model)
    /\ ExecutorReturn(w, ModelResponse(Top(calls[w].stack).model, FALSE,
                                       "PerplexityAPIError"))
    /\ FaultAllowed
    /\ faults' = faults + 1
    /\ UNCHANGED <<gw, skillsImported, tracker, rollback, mode, max_workers,
                   pool, orch, gate, estimate, budget, query>>

\* The aliases a call has posted a request to: one per frame, but for the
\* frame that raised RecursionError before posting.
Requested(call) ==
    { call.stack[i].model : i \in 1..(IF Len(call.stack) > RecursionLimit
                                      THEN RecursionLimit
                                      ELSE Len(call.stack)) }

(***************************************************************************)
(* ParallelExecutor.execute_parallel (parallel_executor.py:328-397).       *)
(*                                                                         *)
(* Task i of the stage is the call calls[i] for pool.models[i]: queued     *)
(* while calls[i].pc = "idle", running on a pool thread while "request",   *)
(* finished when "done". The main thread collects finished futures from    *)
(* as_completed in whatever order it meets them.                           *)
(*                                                                         *)
(* pool.pc         "idle" | "running" | "done" | "raised"                  *)
(* pool.collected  the tasks whose future as_completed has yielded         *)
(* pool.responses  the list responses of line 352                          *)
(* pool.result     the ParallelResult returned                             *)
(***************************************************************************)
\* The values of the constructor argument max_workers tried; 5 is the default.
MaxWorkersArgs == {1, 2, 5}

\* parallel_executor.py:419-444 and 561: the model lists of the stages
stage1_context == <<"kimi-researcher", "perplexity-online">>
stage2_deliberate == <<"deepseek-v3", "gemini-flash", "claude-sonnet">>
stage3_synthesize == <<"gemini-pro">>
stage4_ratification == <<"opus-synthesis">>

StageLists ==
    {stage1_context, stage2_deliberate, stage3_synthesize,
     stage4_ratification, <<>>}

PoolIdle ==
    [pc |-> "idle", models |-> <<>>, collected |-> {}, responses |-> <<>>,
     result |-> None]

Min(a, b) == IF a < b THEN a ELSE b

\* parallel_executor.py:387: sum(1 for r in responses if r.success)
SuccessCount(responses) ==
    Cardinality({i \in 1..Len(responses) : responses[i].success})

\* parallel_executor.py:385: sum(r.cost for r in responses)
RECURSIVE SumCost(_)
SumCost(responses) ==
    IF responses = <<>> THEN 0
    ELSE Head(responses).cost + SumCost(Tail(responses))

\* parallel_executor.py:384-397
ParallelResult(responses) ==
    [responses |-> responses,
     total_cost |-> SumCost(responses),
     success_count |-> SuccessCount(responses),
     failure_count |-> Len(responses) - SuccessCount(responses)]

\* parallel_executor.py:353-365. ThreadPoolExecutor(max_workers=0) raises
\* ValueError, so an empty list never returns a result.
execute_parallel(models) ==
    /\ pool.pc = "idle"
    /\ IF Len(models) = 0
       THEN pool' = [pool EXCEPT !.pc = "raised"]
       ELSE pool' = [pool EXCEPT !.pc = "running", !.models = models]
    /\ calls' = [w \in Workers |-> CallIdle]

\* a pool with a thread for every task
PoolThreadsPerTask(workers, n) == n

\* A pool thread takes the next queued task: the queue is first-in first-out
\* and the pool has min(max_workers, len(models)) threads (line 353).
PoolThreads(workers, n) == Min(workers, n)

PoolRunning == {w \in Workers : calls[w].pc = "request"}

PoolStart(w) ==
    /\ pool.pc = "running"
    /\ w \in 1..Len(pool.models)
    /\ calls[w].pc = "idle"
    /\ \A v \in 1..(w - 1) : calls[v].pc # "idle"
    /\ Cardinality(PoolRunning) < PoolThreads(max_workers, Len(pool.models))
    /\ execute_model(w, pool.models[w], 0)
    /\ UNCHANGED <<gw, skillsImported, tracker, rollback, mode, max_workers,
                   pool, orch, gate, estimate, budget, query, faults>>

\* a collecting loop that lets the worker's exception through
CollectedUnguarded(model, outcome) == outcome

\* parallel_executor.py:370-380: future.result() returns the response, or
\* raises what the worker raised
Collected(model, outcome) ==
    IF outcome.kind = "raised"
    THEN [ModelResponse(model, FALSE, "Execution error")
             EXCEPT !.latency_seconds = 0]
    ELSE outcome

\* a collecting loop that stops at the first future yielded
AllCollectedFirstOnly(collected, n) == Cardinality(collected) >= 1

\* parallel_executor.py:368: the loop ends when every future was yielded
AllCollected(collected, n) == Cardinality(collected) = n

\* parallel_executor.py:368-397: as_completed yields the finished future of
\* task w; after the last one the totals are computed and the result returned
PoolCollect(w) ==
    /\ pool.pc = "running"
    /\ w \in 1..Len(pool.models)
    /\ w \notin pool.collected
    /\ calls[w].pc = "done"
    /\ LET responses == Append(pool.responses,
                               Collected(pool.models[w], calls[w].result))
           collected == pool.collected \cup {w}
       IN IF AllCollected(collected, Len(pool.models))
          THEN pool' = [pool EXCEPT !.pc = "done", !.collected = collected,
                                    !.responses = responses,
                                    !.result = ParallelResult(responses)]
          ELSE pool' = [pool EXCEPT !.collected = collected,
                                    !.responses = responses]
    /\ UNCHANGED <<gw, skillsImported, tracker, rollback, mode, max_workers,
                   calls, orch, gate, estimate, budget, query, faults>>

(***************************************************************************)
(* Money is counted in units of 0.0001 dollar, the precision to which      *)
(* estimate_tier_cost rounds (diamond_cost_predictor.py:170).              *)
(*                                                                         *)
(* budget.monthly_budget / budget.current_monthly_spend are the values the *)
(* predictor and the gatekeeper were constructed with.                     *)
(***************************************************************************)
MAX_COST_PER_QUERY == 25000
MIN_OPUS_BUDGET == 5000
\* BUDGET_GATE_THRESHOLD = 0.40, in percent
BUDGET_GATE_THRESHOLD == 40

\* diamond_cost_predictor.py:87-91 and .get(tier, 0.20), in percent
tier_budget_allocation(tier) ==
    CASE tier = "tier_1" -> 20
      [] tier = "tier_2" -> 40
      [] tier = "tier_3" -> 40
      [] OTHER -> 20

\* a reservation check without the per-query ceiling
CheckWithoutCeiling(tier, estimated_cost) ==
    LET remaining_budget == budget.monthly_budget - budget.current_monthly_spend
        a == tier_budget_allocation(tier)
    IN IF estimated_cost > remaining_budget
       THEN [can_proceed |-> FALSE, reason |-> "Insufficient budget"]
       ELSE IF estimated_cost * 100 > remaining_budget * a
       THEN [can_proceed |-> FALSE, reason |-> "Tier budget exceeded"]
       ELSE [can_proceed |-> TRUE, reason |-> "Budget available"]

\* a reservation check that looks at the monthly budget first
CheckBudgetFirst(tier, estimated_cost) ==
    LET remaining_budget == budget.monthly_budget - budget.current_monthly_spend
        a == tier_budget_allocation(tier)
    IN IF estimated_cost > remaining_budget
       THEN [can_proceed |-> FALSE, reason |-> "Insufficient budget"]
       ELSE IF estimated_cost > MAX_COST_PER_QUERY
       THEN [can_proceed |-> FALSE, reason |-> "exceeds per-query ceiling"]
       ELSE IF estimated_cost * 100 > remaining_budget * a
       THEN [can_proceed |-> FALSE, reason |-> "Tier budget exceeded"]
       ELSE [can_proceed |-> TRUE, reason |-> "Budget available"]

\* diamond_cost_predictor.py:172-204. The third check compares with
\* monthly_budget * a - current_monthly_spend * a, a the tier's allocation.
check_budget_reservation(tier, estimated_cost) ==
    LET remaining_budget == budget.monthly_budget - budget.current_monthly_spend
        a == tier_budget_allocation(tier)
    IN IF estimated_cost > MAX_COST_PER_QUERY
       THEN [can_proceed |-> FALSE, reason |-> "exceeds per-query ceiling"]
       ELSE IF estimated_cost > remaining_budget
       THEN [can_proceed |-> FALSE, reason |-> "Insufficient budget"]
       ELSE IF estimated_cost * 100 > remaining_budget * a
       THEN [can_proceed |-> FALSE, reason |-> "Tier budget exceeded"]
       ELSE [can_proceed |-> TRUE, reason |-> "Budget available"]

\* diamond_cost_predictor.py:206-250. max_cost is what estimate_tier_cost
\* returns for the query: it grows with the length of query and context,
\* and is an input here.
\* estimate.degraded is the answer of recommend_degradation about the
\* estimate, "unasked" until the method is called; estimate.asked counts
\* the calls of predict_and_reserve made on the predictor, and
\* estimate.approved_cost adds up estimated_max_cost over the calls that
\* returned can_proceed = True (history).
NoEstimate ==
    [made |-> FALSE, tier |-> None, estimated_max_cost |-> 0,
     can_proceed |-> FALSE, reason |-> None, degraded |-> "unasked",
     asked |-> 0, approved_cost |-> 0]

\* a prediction that books the estimate on the month's spend
PredictAndSpend(tier, max_cost) ==
    LET check == check_budget_reservation(tier, max_cost)
    IN /\ estimate' = [made |-> TRUE, tier |-> tier,
                       estimated_max_cost |-> max_cost,
                       can_proceed |-> check.can_proceed,
                       reason |-> check.reason, degraded |-> "unasked",
                       asked |-> estimate.asked + 1,
                       approved_cost |->
                          estimate.approved_cost
                             + (IF check.can_proceed THEN max_cost ELSE 0)]
       /\ budget' = IF check.can_proceed
                    THEN [budget EXCEPT !.current_monthly_spend = @ + max_cost]
                    ELSE budget

predict_and_reserve(tier, max_cost) ==
    LET check == check_budget_reservation(tier, max_cost)
    IN /\ estimate' = [made |-> TRUE, tier |-> tier,
                       estimated_max_cost |-> max_cost,
                       can_proceed |-> check.can_proceed,
                       reason |-> check.reason, degraded |-> "unasked",
                       asked |-> estimate.asked + 1,
                       approved_cost |->
                          estimate.approved_cost
                             + (IF check.can_proceed THEN max_cost ELSE 0)]
       /\ UNCHANGED budget

\* diamond_cost_predictor.py:189, 195, 202, 204: the words of the reasons
ReasonWords(reason) ==
    CASE reason = "exceeds per-query ceiling" ->
            {"Cost", "exceeds", "per-query", "ceiling", "of"}
      [] reason = "Insufficient budget" ->
            {"Insufficient", "budget:", "remaining"}
      [] reason = "Tier budget exceeded" ->
            {"Tier", "budget", "exceeded:", "tier", "remaining"}
      [] reason = "Budget available" -> {"Budget", "available"}
      [] OTHER -> {}

\* str.lower() of a word of a reason
LowerReasonWord(word) ==
    CASE word = "Cost" -> "cost"
      [] word = "Insufficient" -> "insufficient"
      [] word = "Tier" -> "tier"
      [] word = "Budget" -> "budget"
      [] OTHER -> word

\* "budget" in text, for a text of the words
HoldsBudget(words) == words \cap {"budget", "budget:"} # {}

\* a degradation that reads the reason as it is written
DegradeCaseSensitive(cost_estimate) ==
    IF cost_estimate.tier = "tier_3"
    THEN (IF HoldsBudget(ReasonWords(cost_estimate.reason))
          THEN "tier_1" ELSE "tier_3_lite")
    ELSE IF cost_estimate.tier = "tier_2" THEN "tier_1"
    ELSE cost_estimate.tier

\* diamond_cost_predictor.py:252-270: DiamondCostPredictor.recommend_degradation
predictor_recommend_degradation(cost_estimate) ==
    IF cost_estimate.tier = "tier_3"
    THEN (IF HoldsBudget({LowerReasonWord(word) :
                             word \in ReasonWords(cost_estimate.reason)})
          THEN "tier_1" ELSE "tier_3_lite")
    ELSE IF cost_estimate.tier = "tier_2" THEN "tier_1"
    ELSE cost_estimate.tier

(***************************************************************************)
(* OpusGatekeeper (opus_gatekeeper.py). A query is known by the keyword    *)
(* categories of which it contains a keyword.                              *)
(***************************************************************************)
MANDATORY_KEYWORDS ==
    <<"strategy", "architecture", "client_communication", "executive">>
SKIP_KEYWORDS == <<"code_implementation", "simple_debugging", "syntax_error">>

\* the first category of the list of which the query holds a keyword
RECURSIVE FirstMatch(_, _, _)
FirstMatch(categories, i, keywords) ==
    IF i > Len(categories) THEN None
    ELSE IF categories[i] \in keywords THEN categories[i]
    ELSE FirstMatch(categories, i + 1, keywords)

\* opus_gatekeeper.py:134-158
classify_category(keywords) ==
    IF FirstMatch(MANDATORY_KEYWORDS, 1, keywords) # None
    THEN <<"MANDATORY", FirstMatch(MANDATORY_KEYWORDS, 1, keywords)>>
    ELSE IF FirstMatch(SKIP_KEYWORDS, 1, keywords) # None
    THEN <<"SKIP", FirstMatch(SKIP_KEYWORDS, 1, keywords)>>
    ELSE <<"NONE", None>>

\* a budget check that wants more than the floor left
CheckBudgetStrict ==
    budget.monthly_budget - budget.current_monthly_spend > MIN_OPUS_BUDGET

\* opus_gatekeeper.py:160-170
check_budget ==
    budget.monthly_budget - budget.current_monthly_spend >= MIN_OPUS_BUDGET

\* opus_gatekeeper.py:132 and 252: spend above the budget gate
AboveBudgetGate ==
    budget.current_monthly_spend * 100 > budget.monthly_budget * BUDGET_GATE_THRESHOLD

\* a decision that asks for the tier before the skip categories
OpusDecisionTierFirst(keywords, tier) ==
    LET category == classify_category(keywords)
    IN IF category[1] = "MANDATORY"
       THEN (IF check_budget THEN "INVOKE" ELSE "BUDGET_BLOCK")
       ELSE IF tier = "tier_3" /\ ~AboveBudgetGate
       THEN (IF check_budget THEN "INVOKE" ELSE "BUDGET_BLOCK")
       ELSE IF category[1] = "SKIP" THEN "SKIP"
       ELSE IF AboveBudgetGate THEN "BUDGET_BLOCK"
       ELSE "SKIP"

\* a decision that applies the budget gate before the skip categories
OpusDecisionGateFirst(keywords, tier) ==
    LET category == classify_category(keywords)
    IN IF category[1] = "MANDATORY"
       THEN (IF check_budget THEN "INVOKE" ELSE "BUDGET_BLOCK")
       ELSE IF AboveBudgetGate THEN "BUDGET_BLOCK"
       ELSE IF category[1] = "SKIP" THEN "SKIP"
       ELSE IF tier = "tier_3"
       THEN (IF check_budget THEN "INVOKE" ELSE "BUDGET_BLOCK")
       ELSE "SKIP"

\* opus_gatekeeper.py:185-296: the decision
OpusDecision(keywords, tier) ==
    LET category == classify_category(keywords)
    IN IF category[1] = "MANDATORY"
       THEN (IF check_budget THEN "INVOKE" ELSE "BUDGET_BLOCK")
       ELSE IF category[1] = "SKIP" THEN "SKIP"
       ELSE IF AboveBudgetGate THEN "BUDGET_BLOCK"
       ELSE IF tier = "tier_3"
       THEN (IF check_budget THEN "INVOKE" ELSE "BUDGET_BLOCK")
       ELSE "SKIP"

\* gate.alternative is the answer of recommend_degradation about the
\* decision, "unasked" until the method is called
\* gate.asked counts the calls of should_invoke_opus made on the gatekeeper
NoDecision ==
    [made |-> FALSE, decision |-> None, category |-> <<"NONE", None>>,
     tier |-> None, alternative |-> "unasked", asked |-> 0]

should_invoke_opus(keywords, tier) ==
    /\ gate' = [made |-> TRUE, decision |-> OpusDecision(keywords, tier),
                category |-> classify_category(keywords),
                tier |-> tier, alternative |-> "unasked",
                asked |-> gate.asked + 1]
    /\ UNCHANGED budget

\* an alternative offered for a blocked decision only
DegradeOnBudgetBlockOnly(result) ==
    IF result.decision = "BUDGET_BLOCK" THEN "gemini-pro" ELSE None

\* opus_gatekeeper.py:298-319: OpusGatekeeper.recommend_degradation
gatekeeper_recommend_degradation(result) ==
    IF result.decision = "INVOKE" THEN None
    ELSE IF result.decision = "BUDGET_BLOCK" THEN "gemini-pro"
    ELSE IF result.decision = "SKIP" /\ result.tier = "tier_3"
    THEN "gemini-pro"
    ELSE None

(***************************************************************************)
(* DiamondOrchestrator (parallel_executor.py:467-764).                     *)
(*                                                                         *)
(* orch.pc      "idle"; "context", "deliberation", "synthesis",            *)
(*              "ratification": execute_diamond waits for that stage;      *)
(*              "architect", "auditor", "contextualist", "judge":          *)
(*              execute_diamond_debate waits for that step; "done";        *)
(*              "raised": an exception left the protocol                   *)
(* orch.stages  results["stages"] of execute_diamond                       *)
(* orch.steps   the step responses of execute_diamond_debate so far        *)
(* orch.posted  history: the aliases requested in earlier stages and steps *)
(*                                                                         *)
(* orch.content the text last handed to _extract_recommendation            *)
(* orch.prompts the step prompts a four-step protocol builds from the      *)
(*              outputs of its first three steps: for each step, the       *)
(*              lengths of the upstream outputs as embedded in its prompt  *)
(* orch.totals  total_latency, total_cost and total_tokens of the          *)
(*              DiamondDebateResult; total_cost is also results            *)
(*              ["total_cost"] of execute_diamond                          *)
(* orch.opus_output  history: the content of the successful response of    *)
(*              stage 4, if the stage has one                              *)
(*                                                                         *)
(* The text of a response is known by the words it holds: the verdict      *)
(* tokens in upper or lower case, and other words. It is drawn when the    *)
(* orchestrator reads it.                                                  *)
(***************************************************************************)
VerdictTokens == {"APPROVED", "CONDITIONAL", "REJECTED", "NEEDS_DEBATE"}

Words ==
    VerdictTokens \cup
    {"approved", "conditional", "rejected", "needs_debate", "looks good"}

\* str.upper() of one word
UpperWord(word) ==
    CASE word = "approved" -> "APPROVED"
      [] word = "conditional" -> "CONDITIONAL"
      [] word = "rejected" -> "REJECTED"
      [] word = "needs_debate" -> "NEEDS_DEBATE"
      [] word = "looks good" -> "LOOKS GOOD"
      [] OTHER -> word

\* parallel_executor.py:582: content.upper()
upper(content) == {UpperWord(word) : word \in content}

\* the texts read in the orchestrator runs
VerdictTexts ==
    {{}, {"APPROVED"}, {"APPROVED", "CONDITIONAL"}, {"REJECTED"}}

Thresholds == {"always", "never", "conditional"}

OrchIdle ==
    [pc |-> "idle", invoke_opus |-> FALSE, opus_threshold |-> None,
     stages |-> [s \in {} |-> None], steps |-> <<>>,
     final_recommendation |-> None, posted |-> {}, result |-> None,
     content |-> {}, opus_output |-> [given |-> FALSE, words |-> {}],
     prompts |-> [protocol |-> None, outputs |-> <<>>, embedded |-> <<>>],
     totals |-> [total_latency |-> 0, total_cost |-> 0, total_tokens |-> 0]]

\* an extraction that reads the text as it is written
ExtractCaseSensitive(content) ==
    IF "APPROVED" \in content /\ "CONDITIONAL" \notin content THEN "APPROVED"
    ELSE IF "REJECTED" \in content THEN "REJECTED"
    ELSE IF "CONDITIONAL" \in content \/ "NEEDS_DEBATE" \in content
    THEN "CONDITIONAL"
    ELSE "UNCLEAR"

\* parallel_executor.py:580-591
extract_recommendation(content) ==
    LET content_upper == upper(content)
    IN IF "APPROVED" \in content_upper /\ "CONDITIONAL" \notin content_upper
       THEN "APPROVED"
       ELSE IF "REJECTED" \in content_upper THEN "REJECTED"
       ELSE IF \/ "CONDITIONAL" \in content_upper
               \/ "NEEDS_DEBATE" \in content_upper
       THEN "CONDITIONAL"
       ELSE "UNCLEAR"

\* a conditional policy that asks for ratification whatever the verdict
ShouldInvokeWheneverConditional(recommendation, threshold) ==
    threshold \in {"always", "conditional"}

\* parallel_executor.py:593-602: DiamondOrchestrator._should_invoke_opus
orchestrator_should_invoke_opus(recommendation, threshold) ==
    IF threshold = "always" THEN TRUE
    ELSE IF threshold = "never" THEN FALSE
    ELSE IF threshold = "conditional" THEN recommendation # "APPROVED"
    ELSE FALSE

\* parallel_executor.py:73-78: is there a successful response whose model
\* field equals the alias
HasModelContent(result, model) ==
    \E i \in 1..Len(result.responses) :
        result.responses[i].model = model /\ result.responses[i].success

\* the aliases requested by the calls now running or finished
PostedNow == UNION {Requested(calls[w]) : w \in Workers}

\* execute_stage (399-460): start execute_parallel on the stage's models
StartStage(models) ==
    /\ pool' = [PoolIdle EXCEPT !.pc = "running", !.models = models]
    /\ calls' = [w \in Workers |-> CallIdle]

\* parallel_executor.py:481-511
execute_diamond(invoke_opus, opus_threshold) ==
    /\ orch.pc = "idle"
    /\ orch' = [orch EXCEPT !.pc = "context", !.invoke_opus = invoke_opus,
                            !.opus_threshold = opus_threshold]
    /\ StartStage(stage1_context)
    /\ UNCHANGED <<gw, skillsImported, tracker, rollback, mode, max_workers,
                   gate, estimate, budget, query, faults>>

\* parallel_executor.py:512-523: stage 1 returned, stage 2 starts
DiamondDeliberate ==
    /\ orch.pc = "context" /\ pool.pc = "done"
    /\ orch' = [orch EXCEPT !.pc = "deliberation",
                            !.stages = ("context" :> pool.result),
                            !.totals.total_cost = @ + pool.result.total_cost,
                            !.posted = orch.posted \cup PostedNow]
    /\ StartStage(stage2_deliberate)
    /\ UNCHANGED <<gw, skillsImported, tracker, rollback, mode, max_workers,
                   gate, estimate, budget, query, faults>>

\* parallel_executor.py:524-538: stage 2 returned, stage 3 starts
DiamondSynthesize ==
    /\ orch.pc = "deliberation" /\ pool.pc = "done"
    /\ orch' = [orch EXCEPT !.pc = "synthesis",
                            !.stages = orch.stages @@ ("deliberation" :> pool.result),
                            !.totals.total_cost = @ + pool.result.total_cost,
                            !.posted = orch.posted \cup PostedNow]
    /\ StartStage(stage3_synthesize)
    /\ UNCHANGED <<gw, skillsImported, tracker, rollback, mode, max_workers,
                   gate, estimate, budget, query, faults>>

\* parallel_executor.py:539-578: stage 3 returned; the recommendation is
\* extracted and stage 4 starts, or the result is returned
DiamondRatify ==
    /\ orch.pc = "synthesis" /\ pool.pc = "done"
    /\ \E synthesis_content \in
            IF HasModelContent(pool.result, "gemini-pro")
            THEN VerdictTexts ELSE {{}} :
        LET recommendation == extract_recommendation(synthesis_content)
            stages == orch.stages @@ ("synthesis" :> pool.result)
        IN IF orch.invoke_opus
              /\ orchestrator_should_invoke_opus(recommendation,
                                                 orch.opus_threshold)
           THEN /\ orch' = [orch EXCEPT !.pc = "ratification",
                                !.stages = stages,
                                !.totals.total_cost =
                                    @ + pool.result.total_cost,
                                !.final_recommendation = recommendation,
                                !.content = synthesis_content,
                                !.posted = orch.posted \cup PostedNow]
                /\ StartStage(stage4_ratification)
           ELSE /\ orch' = [orch EXCEPT !.pc = "done",
                                !.stages = stages,
                                !.totals.total_cost =
                                    @ + pool.result.total_cost,
                                !.final_recommendation = recommendation,
                                !.content = synthesis_content,
                                !.posted = orch.posted \cup PostedNow,
                                !.result = "results"]
                /\ pool' = PoolIdle
                /\ calls' = [w \in Workers |-> CallIdle]
    /\ UNCHANGED <<gw, skillsImported, tracker, rollback, mode, max_workers,
                   gate, estimate, budget, query, faults>>

\* parallel_executor.py:566-578: stage 4 returned
DiamondReturn ==
    /\ orch.pc = "ratification" /\ pool.pc = "done"
    /\ \E output \in
            IF pool.result.success_count > 0 THEN VerdictTexts ELSE {{}} :
        LET opus_content ==
                IF HasModelContent(pool.result, "opus-synthesis")
                THEN output ELSE {}
        IN
        orch' = [orch EXCEPT !.pc = "done",
                     !.stages = orch.stages @@ ("ratification" :> pool.result),
                     !.totals.total_cost = @ + pool.result.total_cost,
                     !.opus_output =
                         [given |-> pool.result.success_count > 0,
                          words |-> output],
                     !.final_recommendation = extract_recommendation(opus_content),
                     !.content = opus_content,
                     !.posted = orch.posted \cup PostedNow,
                     !.result = "results"]
    /\ pool' = PoolIdle
    /\ calls' = [w \in Workers |-> CallIdle]
    /\ UNCHANGED <<gw, skillsImported, tracker, rollback, mode, max_workers,
                   gate, estimate, budget, query, faults>>

\* parallel_executor.py:644-734: the model of each debate step
DebateSteps == <<"architect", "auditor", "contextualist", "judge">>
DebateModels ==
    <<"gemini-architect", "deepseek-v3", "kimi-researcher", "opus-synthesis">>

\* parallel_executor.py:648, 679, 706, 733: the timeout of each step
DebateTimeouts == <<60, 90, 180, 180>>

StepIndex(pc) == CHOOSE i \in 1..Len(DebateSteps) : DebateSteps[i] = pc

\* The steps run in the calling thread, one at a time: calls[1].
StartStep(i) ==
    calls' = [w \in Workers |->
                IF w = 1
                THEN [pc |-> "request", model |-> DebateModels[i],
                      timeout |-> DebateTimeouts[i], usage |-> None,
                      stack |-> <<Frame(DebateModels[i])>>, result |-> None]
                ELSE CallIdle]

\* parallel_executor.py:604-649
execute_diamond_debate ==
    /\ orch.pc = "idle"
    /\ orch' = [orch EXCEPT !.pc = "architect"]
    /\ StartStep(1)
    /\ UNCHANGED pool
    /\ UNCHANGED <<gw, skillsImported, tracker, rollback, mode, max_workers,
                   gate, estimate, budget, query, faults>>

\* parallel_executor.py:655-657
Skipped(model) ==
    [ModelResponse(model, FALSE, "Architect failed, skipping")
        EXCEPT !.latency_seconds = 0]

\* a total that charges a skipped step the timeout it never waited for
TotalsWithSkipPenalty(steps) ==
    [total_latency |-> steps[1].latency_seconds + DebateTimeouts[2],
     total_cost |-> steps[1].cost,
     total_tokens |-> steps[1].tokens_used]

\* parallel_executor.py:658-660: the totals of the early return
ArchitectTotals(steps) ==
    [total_latency |-> steps[1].latency_seconds,
     total_cost |-> steps[1].cost,
     total_tokens |-> steps[1].tokens_used]

\* parallel_executor.py:736-754: the totals of the four steps
DebateTotals(steps) ==
    [total_latency |-> steps[1].latency_seconds + steps[2].latency_seconds
                       + steps[3].latency_seconds + steps[4].latency_seconds,
     total_cost |-> steps[1].cost + steps[2].cost + steps[3].cost
                    + steps[4].cost,
     total_tokens |-> steps[1].tokens_used + steps[2].tokens_used
                      + steps[3].tokens_used + steps[4].tokens_used]

\* parallel_executor.py:651-764: a step's _execute_model has returned or
\* raised; an exception leaves execute_diamond_debate
DebateStepDone ==
    /\ orch.pc \in {"architect", "auditor", "contextualist", "judge"}
    /\ calls[1].pc = "done"
    /\ LET i == StepIndex(orch.pc)
           step == calls[1].result
           posted == orch.posted \cup PostedNow
       IN IF step.kind = "raised"
          THEN /\ orch' = [orch EXCEPT !.pc = "raised", !.posted = posted]
               /\ calls' = [w \in Workers |-> CallIdle]
          ELSE IF i = 1 /\ ~step.success
          THEN /\ orch' = [orch EXCEPT !.pc = "done", !.posted = posted,
                               !.steps = <<step, Skipped("deepseek-v3"),
                                           Skipped("kimi-researcher"),
                                           Skipped("opus-synthesis")>>,
                               !.totals = ArchitectTotals(<<step>>),
                               !.result = "DiamondDebateResult"]
               /\ calls' = [w \in Workers |-> CallIdle]
          ELSE IF i < Len(DebateSteps)
          THEN /\ orch' = [orch EXCEPT !.pc = DebateSteps[i + 1],
                               !.posted = posted,
                               !.steps = Append(orch.steps, step)]
               /\ StartStep(i + 1)
          ELSE /\ orch' = [orch EXCEPT !.pc = "done", !.posted = posted,
                               !.steps = Append(orch.steps, step),
                               !.totals = DebateTotals(Append(orch.steps, step)),
                               !.result = "DiamondDebateResult"]
               /\ calls' = [w \in Workers |-> CallIdle]
    /\ UNCHANGED pool
    /\ UNCHANGED <<gw, skillsImported, tracker, rollback, mode, max_workers,
                   gate, estimate, budget, query, faults>>

(***************************************************************************)
(* DashboardTracker (dashboard/backend/tracker.py).                        *)
(*                                                                         *)
(* A record is known by its number: the n-th record handed to              *)
(* track_api_call. Three threads touch the queue: the callers of           *)
(* track_api_call, the background flush thread, and the caller of          *)
(* shutdown(). Each runs _flush_queue as a call of its own:                *)
(*   tracker[th].pc       where the thread th is                           *)
(*   tracker[th].records  the local list of the running _flush_queue       *)
(*   tracker[th].next     where the thread goes on when _flush_queue       *)
(*                        returns                                          *)
(* tracker.db             the rows committed, in order                     *)
(* tracker.enqueued, write_failures, overflowed                            *)
(*                        history: the records handed in, the writes that  *)
(*                        failed, and whether a record was handed in while *)
(*                        QueueMaxSize or more were pending                *)
(* Statements under self._lock are one step each; the lock is free between *)
(* the steps.                                                              *)
(***************************************************************************)
\* tracker.py:53, 103: deque(maxlen=QUEUE_MAX_SIZE) with QUEUE_MAX_SIZE =
\* 1000; the model follows a queue that holds QueueMaxSize records
QueueMaxSize == 2

\* the records handed to track_api_call and the writes that fail, at most
MaxRecords == 3
MaxWriteFailures == 2

FlushThreads == {"flush_thread", "shutdown"}

\* tracker.py:95-112, 126-139: the tracker as constructed, its flush thread
\* started and about to test self._running
NewTracker ==
    [queue |-> <<>>, running |-> TRUE,
     flush_thread |-> [pc |-> "check", records |-> <<>>, next |-> None],
     shutdown |-> [pc |-> "idle", records |-> <<>>, next |-> None],
     db |-> <<>>, enqueued |-> 0, write_failures |-> 0, overflowed |-> FALSE]

\* the records in the queue or in the hands of a running flush
Pending(t) ==
    Len(t.queue) + Len(t.flush_thread.records) + Len(t.shutdown.records)

\* deque.append with maxlen: a full deque drops its oldest item
DequeAppend(queue, record) ==
    IF Len(queue) >= QueueMaxSize THEN Append(Tail(queue), record)
    ELSE Append(queue, record)

\* tracker.py:262-264: the record joins the queue
Enqueue(t) ==
    [t EXCEPT !.queue = DequeAppend(@, t.enqueued + 1),
              !.enqueued = @ + 1,
              !.overflowed = @ \/ Pending(t) >= QueueMaxSize]

\* a flush that copies the queue and leaves it as it is
QueueLeftInPlace(queue) == queue

\* tracker.py:148: self._queue.clear()
QueueAfterTake(queue) == <<>>

\* tracker.py:143-151: the thread th enters _flush_queue and, under the
\* lock, takes the whole queue; with an empty queue the call returns
FlushTake(t, th, next) ==
    IF t.queue = <<>>
    THEN [t EXCEPT ![th] = [pc |-> next, records |-> <<>>, next |-> None]]
    ELSE [t EXCEPT ![th] = [pc |-> "write", records |-> t.queue,
                            next |-> next],
                   !.queue = QueueAfterTake(t.queue)]

\* tracker.py:159-162: under the lock, each record goes back while the
\* queue has room
RECURSIVE Requeue(_, _)
Requeue(queue, records) ==
    IF records = <<>> THEN queue
    ELSE Requeue(IF Len(queue) < QueueMaxSize
                 THEN Append(queue, Head(records)) ELSE queue,
                 Tail(records))

\* tracker.py:204-264: a caller's record joins the queue
track_api_call ==
    /\ tracker.enqueued < MaxRecords
    /\ tracker' = Enqueue(tracker)
    /\ UNCHANGED <<gw, skillsImported, rollback, mode, max_workers, calls,
                   pool, orch, gate, estimate, budget, query, faults>>

\* tracker.py:131: flush_loop tests self._running; when it is unset the loop
\* ends and the final flush (136) is entered
FlushLoopCheck ==
    /\ tracker.flush_thread.pc = "check"
    /\ tracker' = IF tracker.running
                  THEN [tracker EXCEPT !.flush_thread.pc = "sleep"]
                  ELSE FlushTake(tracker, "flush_thread", "exit")
    /\ UNCHANGED <<gw, skillsImported, rollback, mode, max_workers, calls,
                   pool, orch, gate, estimate, budget, query, faults>>

\* tracker.py:132-133: the sleep ends and _flush_queue is entered
FlushLoopWake ==
    /\ tracker.flush_thread.pc = "sleep"
    /\ tracker' = FlushTake(tracker, "flush_thread", "check")
    /\ UNCHANGED <<gw, skillsImported, rollback, mode, max_workers, calls,
                   pool, orch, gate, estimate, budget, query, faults>>

\* tracker.py:156-157, 164-198: _write_records inserts the records and
\* commits them in one transaction
FlushWriteCommits(th) ==
    /\ tracker[th].pc = "write"
    /\ tracker' = [tracker EXCEPT
                      !.db = @ \o tracker[th].records,
                      ![th] = [pc |-> tracker[th].next, records |-> <<>>,
                               next |-> None]]
    /\ UNCHANGED <<gw, skillsImported, rollback, mode, max_workers, calls,
                   pool, orch, gate, estimate, budget, query, faults>>

\* tracker.py:158, 200-202: _write_records raises before its commit
FlushWriteFails(th) ==
    /\ tracker[th].pc = "write"
    /\ tracker.write_failures < MaxWriteFailures
    /\ tracker' = [tracker EXCEPT !.write_failures = @ + 1,
                                  ![th].pc = "requeue"]
    /\ UNCHANGED <<gw, skillsImported, rollback, mode, max_workers, calls,
                   pool, orch, gate, estimate, budget, query, faults>>

\* tracker.py:159-162: the records of the failed write go back
FlushRequeue(th) ==
    /\ tracker[th].pc = "requeue"
    /\ tracker' = [tracker EXCEPT
                      !.queue = Requeue(@, tracker[th].records),
                      ![th] = [pc |-> tracker[th].next, records |-> <<>>,
                               next |-> None]]
    /\ UNCHANGED <<gw, skillsImported, rollback, mode, max_workers, calls,
                   pool, orch, gate, estimate, budget, query, faults>>

\* tracker.py:329-333: shutdown unsets _running and joins the flush thread
shutdown ==
    /\ tracker.shutdown.pc = "idle"
    /\ tracker' = [tracker EXCEPT !.running = FALSE,
                                  !.shutdown.pc = "join"]
    /\ UNCHANGED <<gw, skillsImported, rollback, mode, max_workers, calls,
                   pool, orch, gate, estimate, budget, query, faults>>

\* tracker.py:333-334: the join ends, with the flush thread gone or after 5
\* seconds with the flush thread still running, and _flush_queue is entered
ShutdownFlush ==
    /\ tracker.shutdown.pc = "join"
    /\ tracker' = FlushTake(tracker, "shutdown", "done")
    /\ UNCHANGED <<gw, skillsImported, rollback, mode, max_workers, calls,
                   pool, orch, gate, estimate, budget, query, faults>>

(***************************************************************************)
(* The mode functions (scripts/refine.py, brainstorm.py, build_planner.py) *)
(* and TrackedCouncilGateway (dashboard/backend/tracked_gateway.py): each  *)
(* calls a model through the gateway and reports the call to the tracker.  *)
(*                                                                         *)
(* mode.fn        the function that runs; mode.pc where it is              *)
(* mode.response  the dict gateway.call_model returned                     *)
(* mode.tracking  what became of the report: "none", "recorded", "raised"  *)
(* mode.returned  the dict the function goes on with after the report      *)
(* mode.raised    an exception left the function                           *)
(*                                                                         *)
(* The gateway keeps no state between calls: a call is known here by the   *)
(* dict it returns.                                                        *)
(***************************************************************************)
ModeIdle == [fn |-> None, pc |-> "idle"]

\* gateway.py:96-158: the dicts call_model returns for a model: its own
\* answer, the answer of its fallback, or a failure
GatewayAnswers(model) ==
    {GatewayResponse(TRUE, model, None),
     GatewayResponse(FALSE, model, "Request timeout"),
     GatewayResponse(FALSE, model, "Request failed")}
    \cup (IF FallbackOf(MODEL_FALLBACKS, model) # None
          THEN {GatewayResponse(TRUE, FallbackOf(MODEL_FALLBACKS, model), None)}
          ELSE {})

\* what the tracker does with a report: it queues a record, or it raises
TrackingOutcomes == {"recorded", "raised"}

\* tracker.py:283-327, 204-264: track_gateway_response queues one record
\* unless it raises
Tracked(t, outcome) == IF outcome = "recorded" THEN Enqueue(t) ELSE t

\* council_tracker.py:81-115: track_call answers None when tracking is not
\* available or when the tracker raised, and the request id otherwise
track_call(available, outcome) ==
    IF ~available THEN None
    ELSE IF outcome = "raised" THEN None
    ELSE "request_id"

ReportingModes == {"refine", "brainstorm", "build_planner"}
ReportingCallers == ReportingModes \cup {"tracked_gateway"}

\* the first model of each mode, and a model without fallback
ReportedModels ==
    {"kimi-synthesis", "kimi-researcher", "gemini-architect",
     "gemini-flash-fallback"}

\* refine.py:110-115, brainstorm.py:92-97, build_planner.py:211-216,
\* tracked_gateway.py:94-101: the function calls the model. track stands
\* for TRACKING_AVAILABLE in a mode function and for the argument track of
\* TrackedCouncilGateway.call_model.
ModeCallsModel ==
    /\ mode.pc = "idle"
    /\ \E fn \in ReportingCallers, model \in ReportedModels,
          track \in BOOLEAN :
          mode' = [fn |-> fn, pc |-> "request", model |-> model,
                   track |-> track, response |-> None, tracking |-> "none",
                   returned |-> None, raised |-> FALSE]
    /\ UNCHANGED <<gw, skillsImported, tracker, rollback, max_workers, calls,
                   pool, orch, gate, estimate, budget, query, faults>>

\* gateway.call_model returns
ModeGetsAnswer ==
    /\ mode.pc = "request" /\ mode.fn \in ReportingCallers
    /\ \E response \in GatewayAnswers(mode.model) :
          mode' = [mode EXCEPT !.pc = "answered", !.response = response]
    /\ UNCHANGED <<gw, skillsImported, tracker, rollback, max_workers, calls,
                   pool, orch, gate, estimate, budget, query, faults>>

\* refine.py:117-129, brainstorm.py:99-111, build_planner.py:218-230: the
\* report of a mode function, inside try / except Exception: pass
ModeReports ==
    /\ mode.pc = "answered" /\ mode.fn \in ReportingModes
    /\ \E outcome \in TrackingOutcomes :
          LET request_id == track_call(mode.track, outcome)
          IN /\ tracker' = IF mode.track THEN Tracked(tracker, outcome)
                           ELSE tracker
             /\ mode' = [mode EXCEPT
                            !.pc = "reported",
                            !.tracking = IF ~mode.track THEN "none"
                                         ELSE IF request_id = None
                                         THEN "raised" ELSE "recorded",
                            !.returned = mode.response]
    /\ UNCHANGED <<gw, skillsImported, rollback, max_workers, calls, pool,
                   orch, gate, estimate, budget, query, faults>>

\* tracked_gateway.py:103-132: the report is made inside the try block of
\* the model call. When it raises, the handler of 116 reports an error
\* record (which queues a record or raises in turn) and raises again.
TrackedGatewayReports ==
    /\ mode.pc = "answered" /\ mode.fn = "tracked_gateway"
    /\ \E outcome \in TrackingOutcomes, handler_outcome \in TrackingOutcomes :
          IF ~mode.track
          THEN /\ tracker' = tracker
               /\ mode' = [mode EXCEPT !.pc = "reported",
                                       !.returned = mode.response]
          ELSE IF outcome = "recorded"
          THEN /\ tracker' = Tracked(tracker, outcome)
               /\ mode' = [mode EXCEPT !.pc = "reported",
                                       !.tracking = "recorded",
                                       !.returned = mode.response]
          ELSE /\ tracker' = Tracked(tracker, handler_outcome)
               /\ mode' = [mode EXCEPT !.pc = "reported",
                                       !.tracking = "raised",
                                       !.raised = TRUE]
    /\ UNCHANGED <<gw, skillsImported, rollback, max_workers, calls, pool,
                   orch, gate, estimate, budget, query, faults>>

(***************************************************************************)
(* RollbackStore (lib/schemas.py) and refine (scripts/refine.py).          *)
(*                                                                         *)
(* rollback.states     session id -> the states saved, oldest first. The   *)
(*                     store is a singleton of the process.                *)
(* mode.input_text     the argument of the running refine() call           *)
(* mode.round          the round that runs, from 1                         *)
(* mode.refined_output the text the next round refines                     *)
(* mode.result         the dict refine() returned                          *)
(* mode.refine_calls   history: the refine() calls made so far             *)
(***************************************************************************)
\* schemas.py:262-263
NewRollbackStore == [states |-> [session_id \in {} |-> <<>>]]

\* the None that get_original and get_latest answer for an unknown session
NoState == [original |-> None, round |-> 0]

\* schemas.py:265-272
save_state(store, session_id, state) ==
    [store EXCEPT !.states =
        IF session_id \in DOMAIN store.states
        THEN [store.states EXCEPT ![session_id] = Append(@, state)]
        ELSE store.states @@ (session_id :> <<state>>)]

\* schemas.py:274-278: the first state saved under the session id
get_original(store, session_id) ==
    IF session_id \notin DOMAIN store.states
       \/ store.states[session_id] = <<>>
    THEN NoState
    ELSE store.states[session_id][1]

\* schemas.py:289-293
get_latest(store, session_id) ==
    IF session_id \notin DOMAIN store.states
       \/ store.states[session_id] = <<>>
    THEN NoState
    ELSE store.states[session_id][Len(store.states[session_id])]

\* models.py:21-29: REFINEMENT_MODELS["rounds"]
RefinementRounds == <<"kimi-synthesis", "claude-sonnet", "opus-synthesis">>

\* the texts handed to refine()
RefineInputs == {"plan A", "plan B"}

\* the outputs of a round: shorter than 50 characters, long without a
\* word of critique, long with one
RoundOutputs == {"short", "plain", "critique"}

\* schemas.py:181-217: QualityGate.validate_refinement_output. A text that
\* matches one of the patterns of 193-197 is shorter than 50 characters.
validate_refinement_output(output, round_num) ==
    IF output = "short" THEN FALSE
    ELSE IF round_num > 1 /\ output # "critique" THEN FALSE
    ELSE TRUE

MaxRefineCalls == 2

RefineCallsMade == IF mode.fn = "refine" THEN mode.refine_calls ELSE 0

\* refine.py:50-115: refine() saves the input under the session id
\* "refine_session" and calls the model of round 1
refine(input_text) ==
    /\ mode.pc \in {"idle", "returned"}
    /\ mode.fn \in {None, "refine"}
    /\ RefineCallsMade < MaxRefineCalls
    /\ rollback' = save_state(rollback, "refine_session",
                              [original |-> input_text, round |-> 0])
    /\ mode' = [fn |-> "refine", pc |-> "request", input_text |-> input_text,
                round |-> 1, refined_output |-> input_text,
                model |-> RefinementRounds[1], response |-> None,
                result |-> None, refine_calls |-> RefineCallsMade + 1]
    /\ UNCHANGED <<gw, skillsImported, tracker, max_workers, calls, pool,
                   orch, gate, estimate, budget, query, faults>>

\* refine.py:110-115: gateway.call_model returns
RefineGetsAnswer ==
    /\ mode.fn = "refine" /\ mode.pc = "request"
    /\ \E response \in GatewayAnswers(mode.model) :
          mode' = [mode EXCEPT !.pc = "answered", !.response = response]
    /\ UNCHANGED <<gw, skillsImported, tracker, rollback, max_workers, calls,
                   pool, orch, gate, estimate, budget, query, faults>>

\* refine.py:117-188: the call is reported; a failed call and a failed
\* quality gate return the rollback state; otherwise the state is saved and
\* the next round is called, or the refined text is returned
RefineRoundDone ==
    /\ mode.fn = "refine" /\ mode.pc = "answered"
    /\ \E outcome \in TrackingOutcomes, round_output \in RoundOutputs :
          LET original == get_original(rollback, "refine_session")
              saved == save_state(rollback, "refine_session",
                                  [original |-> mode.input_text,
                                   round |-> mode.round])
          IN /\ outcome = "recorded" => tracker.enqueued < MaxRecords
             /\ tracker' = Tracked(tracker, outcome)
             /\ IF ~mode.response.success
                THEN /\ mode' = [mode EXCEPT
                                   !.pc = "returned",
                                   !.result =
                                      [success |-> FALSE,
                                       error |-> "Round failed",
                                       refined_output |-> None,
                                       rollback_state |-> original]]
                     /\ rollback' = rollback
                ELSE IF ~validate_refinement_output(round_output, mode.round)
                        /\ original # NoState
                THEN /\ mode' = [mode EXCEPT
                                   !.pc = "returned",
                                   !.result =
                                      [success |-> FALSE,
                                       error |-> "Quality gate failed",
                                       refined_output |-> original.original,
                                       rollback_state |-> original]]
                     /\ rollback' = rollback
                ELSE IF mode.round < Len(RefinementRounds)
                THEN /\ mode' = [mode EXCEPT
                                   !.pc = "request",
                                   !.round = mode.round + 1,
                                   !.refined_output = round_output,
                                   !.model = RefinementRounds[mode.round + 1],
                                   !.response = None]
                     /\ rollback' = saved
                ELSE /\ mode' = [mode EXCEPT
                                   !.pc = "returned",
                                   !.refined_output = round_output,
                                   !.result =
                                      [success |-> TRUE, error |-> None,
                                       refined_output |-> round_output,
                                       rollback_state |->
                                          get_latest(saved, "refine_session")]]
                     /\ rollback' = saved
    /\ UNCHANGED <<gw, skillsImported, max_workers, calls, pool, orch, gate,
                   estimate, budget, query, faults>>

(***************************************************************************)
(* brainstorm_parallel (scripts/brainstorm.py), a coroutine run by         *)
(* asyncio.run. asyncio.gather wraps the three call_model_task coroutines  *)
(* in tasks, which the event loop starts in the order of the list, on its  *)
(* one thread. A task keeps the thread until it awaits or returns.         *)
(*                                                                         *)
(* mode.tasks[i].pc   "pending": created; "request": its gateway call is   *)
(*                    in flight; "done"                                    *)
(* mode.tasks[i].result  what call_model_task returned: None for a failed  *)
(*                    model                                                *)
(* mode.log           history: the requests issued and the responses       *)
(*                    returned, in order                                   *)
(* mode.ideas_from    the tasks whose ideas the synthesis prompt holds     *)
(***************************************************************************)
\* models.py:9-18: BRAINSTORMING_MODELS
BrainstormModels == <<"kimi-researcher", "deepseek-v3", "gemini-flash">>
BrainstormSynthesizer == "claude-sonnet"

\* brainstorm.py:75-123: call_model_task holds no await; gateway.call_model
\* (92) blocks the thread in requests.post until the response is there
LoopThreadFree(tasks) ==
    \A j \in DOMAIN tasks : tasks[j].pc # "request"

\* brainstorm.py:54-127: the tasks are created and gathered
brainstorm_parallel ==
    /\ mode.pc = "idle"
    /\ mode' = [fn |-> "brainstorm", pc |-> "gather",
                tasks |-> [i \in DOMAIN BrainstormModels |->
                             [pc |-> "pending", result |-> None]],
                log |-> <<>>, ideas_from |-> {}, result |-> None]
    /\ UNCHANGED <<gw, skillsImported, tracker, rollback, max_workers, calls,
                   pool, orch, gate, estimate, budget, query, faults>>

\* brainstorm.py:75-97: the loop starts the next task of its queue, which
\* runs up to its gateway call
BrainstormTaskStarts(i) ==
    /\ mode.fn = "brainstorm" /\ mode.pc = "gather"
    /\ mode.tasks[i].pc = "pending"
    /\ \A j \in 1..(i - 1) : mode.tasks[j].pc # "pending"
    /\ LoopThreadFree(mode.tasks)
    /\ mode' = [mode EXCEPT
                   !.tasks[i].pc = "request",
                   !.log = Append(@, [event |-> "request",
                                      model |-> BrainstormModels[i]])]
    /\ UNCHANGED <<gw, skillsImported, tracker, rollback, max_workers, calls,
                   pool, orch, gate, estimate, budget, query, faults>>

\* brainstorm.py:92-123: the gateway call returns, the call is reported,
\* and the task returns the model's content, or None for a failed model
BrainstormTaskReturns(i) ==
    /\ mode.fn = "brainstorm" /\ mode.pc = "gather"
    /\ mode.tasks[i].pc = "request"
    /\ \E response \in GatewayAnswers(BrainstormModels[i]),
          outcome \in TrackingOutcomes :
          /\ outcome = "recorded" => tracker.enqueued < MaxRecords
          /\ tracker' = Tracked(tracker, outcome)
          /\ mode' = [mode EXCEPT
                         !.tasks[i] =
                            [pc |-> "done",
                             result |-> IF response.success
                                        THEN BrainstormModels[i] ELSE None],
                         !.log = Append(@, [event |-> "response",
                                            model |-> BrainstormModels[i]])]
    /\ UNCHANGED <<gw, skillsImported, rollback, max_workers, calls, pool,
                   orch, gate, estimate, budget, query, faults>>

\* brainstorm.py:127-175: gather returns when every task is done; the
\* results that are None are skipped and the synthesizer is called
BrainstormSynthesizes ==
    /\ mode.fn = "brainstorm" /\ mode.pc = "gather"
    /\ \A i \in DOMAIN mode.tasks : mode.tasks[i].pc = "done"
    /\ mode' = [mode EXCEPT
                   !.pc = "synthesis",
                   !.ideas_from = {i \in DOMAIN mode.tasks :
                                      mode.tasks[i].result # None},
                   !.log = Append(@, [event |-> "request",
                                      model |-> BrainstormSynthesizer])]
    /\ UNCHANGED <<gw, skillsImported, tracker, rollback, max_workers, calls,
                   pool, orch, gate, estimate, budget, query, faults>>

\* brainstorm.py:170-197: the synthesis returns and is reported; a failed
\* synthesis returns the raw ideas
BrainstormReturns ==
    /\ mode.fn = "brainstorm" /\ mode.pc = "synthesis"
    /\ \E response \in GatewayAnswers(BrainstormSynthesizer),
          outcome \in TrackingOutcomes :
          /\ outcome = "recorded" => tracker.enqueued < MaxRecords
          /\ tracker' = Tracked(tracker, outcome)
          /\ mode' = [mode EXCEPT
                         !.pc = "returned",
                         !.result = IF response.success
                                    THEN "synthesized ideas"
                                    ELSE "raw ideas",
                         !.log = Append(@, [event |-> "response",
                                            model |-> BrainstormSynthesizer])]
    /\ UNCHANGED <<gw, skillsImported, rollback, max_workers, calls, pool,
                   orch, gate, estimate, budget, query, faults>>

(***************************************************************************)
(* The caller: the queries and budgets followed.                           *)
(***************************************************************************)
\* The callers followed by the orchestrator specification. query.asks names
\* the services the caller consults before it runs a protocol: one caller
\* asks both and is let through by both, one asks the gatekeeper and is told
\* to skip, one asks the predictor about a query over the cost ceiling.
\* monthly_budget is the default 100.0 dollars; the spends leave 100, 0.40
\* and 70 dollars.
CallerCases ==
    {[spend |-> 0,
      query |-> [keywords |-> {}, tier |-> "tier_3", max_cost |-> 3000,
                 asks |-> {"predictor", "gatekeeper"}]],
     [spend |-> 996000,
      query |-> [keywords |-> {"syntax_error"}, tier |-> "tier_1",
                 max_cost |-> 50, asks |-> {"gatekeeper"}]],
     [spend |-> 300000,
      query |-> [keywords |-> {"strategy", "code_implementation"},
                 tier |-> "tier_2", max_cost |-> 26000,
                 asks |-> {"predictor"}]]}

Quiet ==
    /\ gw = GatewayIdle
    /\ calls = [w \in Workers |-> CallIdle]
    /\ pool = PoolIdle
    /\ orch = OrchIdle
    /\ gate = NoDecision
    /\ estimate = NoEstimate
    /\ tracker = NewTracker
    /\ rollback = NewRollbackStore
    /\ mode = ModeIdle
    /\ faults = 0

DefaultCaller ==
    /\ budget = [monthly_budget |-> 1000000, current_monthly_spend |-> 0]
    /\ query = [keywords |-> {}, tier |-> "tier_1", max_cost |-> 50,
                asks |-> {}]

(***************************************************************************)
(* SpecGateway: one call of CouncilGateway.call_model.                     *)
(***************************************************************************)
InitGateway ==
    /\ Quiet /\ DefaultCaller
    /\ skillsImported = TRUE
    /\ max_workers = 5

SpecGateway == InitGateway /\ [][GatewayNext]_vars

\* every request returns or times out, so a running call goes on
FairSpecGateway == SpecGateway /\ WF_vars(GatewayNext)

(***************************************************************************)
(* SpecExecutor: one call of ParallelExecutor._execute_model.              *)
(***************************************************************************)
InitExecutor ==
    /\ Quiet /\ DefaultCaller
    /\ skillsImported \in BOOLEAN
    /\ max_workers = 5

ExecutorCall ==
    /\ pool.pc = "idle" /\ orch.pc = "idle"
    /\ \E model \in Aliases : execute_model(1, model, 0)
    /\ UNCHANGED <<gw, skillsImported, tracker, rollback, mode, max_workers,
                   pool, orch, gate, estimate, budget, query, faults>>

ExecutorNext ==
    \/ ExecutorCall
    \/ ExecuteModelSuccess(1)
    \/ ExecuteModelTimeout(1)
    \/ ExecuteModelRequestFailed(1)
    \/ ExecuteModelMalformed(1)
    \/ ExecuteModelOtherError(1)
    \/ ExecuteModelRecursionError(1)
    \/ ExecuteModelPerplexity(1)
    \/ ExecuteModelPerplexityError(1)

SpecExecutor == InitExecutor /\ [][ExecutorNext]_vars

(***************************************************************************)
(* SpecStage: one call of ParallelExecutor.execute_parallel.               *)
(***************************************************************************)
InitStage ==
    /\ Quiet /\ DefaultCaller
    /\ skillsImported \in BOOLEAN
    /\ max_workers \in MaxWorkersArgs

StageCall ==
    /\ orch.pc = "idle"
    /\ \E models \in StageLists : execute_parallel(models)
    /\ UNCHANGED <<gw, skillsImported, tracker, rollback, mode, max_workers,
                   orch, gate, estimate, budget, query, faults>>

\* the pool threads and the collecting loop of a running stage
PoolNext ==
    \/ \E w \in Workers : PoolStart(w)
    \/ \E w \in Workers : ExecuteModelSuccess(w)
    \/ \E w \in Workers : ExecuteModelTimeout(w)
    \/ \E w \in Workers : ExecuteModelRequestFailed(w)
    \/ \E w \in Workers : ExecuteModelMalformed(w)
    \/ \E w \in Workers : ExecuteModelOtherError(w)
    \/ \E w \in Workers : ExecuteModelRecursionError(w)
    \/ \E w \in Workers : ExecuteModelPerplexity(w)
    \/ \E w \in Workers : ExecuteModelPerplexityError(w)
    \/ \E w \in Workers : PoolCollect(w)

StageNext == StageCall \/ PoolNext

SpecStage == InitStage /\ [][StageNext]_vars

\* The threads of the pool run whenever they can, and the calling thread
\* collects every finished future: the steps of a running stage are taken
\* as long as one is possible.
FairSpecStage == SpecStage /\ WF_vars(PoolNext)

(***************************************************************************)
(* SpecOrchestrator: the caller handles one query. It may ask the cost     *)
(* predictor and the gatekeeper about it, and runs one protocol.           *)
(***************************************************************************)
InitOrchestrator ==
    /\ Quiet
    /\ skillsImported \in BOOLEAN
    /\ max_workers = 5
    /\ \E c \in CallerCases :
          /\ budget = [monthly_budget |-> 1000000,
                       current_monthly_spend |-> c.spend]
          /\ query = c.query

CallerPredict ==
    /\ orch.pc = "idle" /\ ~estimate.made
    /\ "predictor" \in query.asks
    /\ predict_and_reserve(query.tier, query.max_cost)
    /\ UNCHANGED <<gw, skillsImported, tracker, rollback, mode, max_workers,
                   calls, pool, orch, gate, query, faults>>

\* diamond_cost_predictor.py:225-230: called without a model list,
\* predict_and_reserve imports get_models_for_tier outside its try block;
\* when the package does not import, the call raises and returns nothing.
CallerPredictImportError ==
    /\ orch.pc = "idle" /\ ~estimate.made /\ estimate.reason = None
    /\ "predictor" \in query.asks
    /\ ~skillsImported
    /\ estimate' = [NoEstimate EXCEPT !.reason = "ImportError"]
    /\ UNCHANGED <<gw, skillsImported, tracker, rollback, mode, max_workers,
                   calls, pool, orch, gate, budget, query, faults>>

CallerGatekeeper ==
    /\ orch.pc = "idle" /\ ~gate.made
    /\ "gatekeeper" \in query.asks
    /\ should_invoke_opus(query.keywords, query.tier)
    /\ UNCHANGED <<gw, skillsImported, tracker, rollback, mode, max_workers,
                   calls, pool, orch, estimate, query, faults>>

\* the caller has the answers it asked for
CallerReady ==
    /\ "predictor" \in query.asks => estimate.made
    /\ "gatekeeper" \in query.asks => gate.made

OrchestratorNext ==
    \/ CallerPredict
    \/ CallerPredictImportError
    \/ CallerGatekeeper
    \/ \E invoke_opus \in BOOLEAN, opus_threshold \in Thresholds :
          CallerReady /\ execute_diamond(invoke_opus, opus_threshold)
    \/ CallerReady /\ execute_diamond_debate
    \/ DiamondDeliberate
    \/ DiamondSynthesize
    \/ DiamondRatify
    \/ DiamondReturn
    \/ DebateStepDone
    \/ PoolNext

SpecOrchestrator == InitOrchestrator /\ [][OrchestratorNext]_vars

(***************************************************************************)
(* SpecPredictor: one call of DiamondCostPredictor.predict_and_reserve,    *)
(* for every tier, estimate and budget state of the sets below.            *)
(***************************************************************************)
\* monthly budgets of 100 and 10 dollars; spends that leave all of it, most
\* of it, 0.40 dollars of the larger one, and less than nothing
PredictorBudgets ==
    {[monthly_budget |-> b, current_monthly_spend |-> spend] :
        b \in {1000000, 100000}, spend \in {0, 300000, 996000, 1200000}}

\* "tier_3_lite" has no allocation of its own
PredictorTiers == {"tier_1", "tier_2", "tier_3", "tier_3_lite"}

\* estimated_max_cost: below, at and above the ceiling of 2.50 dollars
CostEstimates == {0, 50, 3000, 21000, 25000, 25001, 26000, 500000}

InitPredictor ==
    /\ Quiet
    /\ skillsImported \in BOOLEAN
    /\ max_workers = 5
    /\ budget \in PredictorBudgets
    /\ \E tier \in PredictorTiers, max_cost \in CostEstimates :
          query = [keywords |-> {}, tier |-> tier, max_cost |-> max_cost,
                   asks |-> {"predictor"}]

\* diamond_cost_predictor.py:298-300: the caller asks for a degraded tier
CallerPredictorDegradation ==
    /\ estimate.made /\ estimate.degraded = "unasked"
    /\ estimate' = [estimate EXCEPT
                      !.degraded = predictor_recommend_degradation(estimate)]
    /\ UNCHANGED <<gw, skillsImported, tracker, rollback, mode, max_workers,
                   calls, pool, orch, gate, budget, query, faults>>

PredictorNext ==
    \/ CallerPredict
    \/ CallerPredictImportError
    \/ CallerPredictorDegradation

SpecPredictor == InitPredictor /\ [][PredictorNext]_vars

(***************************************************************************)
(* SpecDiamond: a caller runs execute_diamond directly, without the        *)
(* ratification stage (invoke_opus = False).                               *)
(***************************************************************************)
InitDiamond ==
    /\ Quiet /\ DefaultCaller
    /\ skillsImported \in BOOLEAN
    /\ max_workers = 5

DiamondNext ==
    \/ execute_diamond(FALSE, "conditional")
    \/ DiamondDeliberate
    \/ DiamondSynthesize
    \/ DiamondRatify
    \/ PoolNext

SpecDiamond == InitDiamond /\ [][DiamondNext]_vars

(***************************************************************************)
(* SpecGatekeeper: one call of OpusGatekeeper.should_invoke_opus, followed *)
(* by recommend_degradation on its result, for every set of matched        *)
(* categories, every tier and every budget state of the sets below.        *)
(***************************************************************************)
\* monthly budgets of 100 dollars and of 0.40 dollars; spends of nothing,
\* exactly the gate of the larger budget, a cent more, 0.50 dollars short
\* of it, 0.40 dollars short of it, and all of it
GateBudgets ==
    [monthly_budget : {1000000, 4000},
     current_monthly_spend : {0, 400000, 400100, 995000, 996000, 1000000}]

\* "tier_1" is also what classify_query_tier gives when no tier is passed
\* and the tier router is missing (opus_gatekeeper.py:37-40, 205-206)
GateTiers == {"tier_1", "tier_2", "tier_3", "tier_3_lite"}

\* the categories of which the query holds a keyword
GateKeywords ==
    SUBSET {"strategy", "architecture", "client_communication", "executive",
            "code_implementation", "simple_debugging", "syntax_error"}

InitGatekeeper ==
    /\ Quiet
    /\ skillsImported \in BOOLEAN
    /\ max_workers = 5
    /\ budget \in GateBudgets
    /\ query \in [keywords : GateKeywords, tier : GateTiers,
                  max_cost : {0}, asks : {{"gatekeeper"}}]

\* skill.py:293, opus_gatekeeper.py:353: the caller asks for an alternative
CallerDegradation ==
    /\ gate.made /\ gate.alternative = "unasked"
    /\ gate' = [gate EXCEPT
                  !.alternative = gatekeeper_recommend_degradation(gate)]
    /\ UNCHANGED <<gw, skillsImported, tracker, rollback, mode, max_workers,
                   calls, pool, orch, estimate, budget, query, faults>>

GatekeeperNext ==
    \/ CallerGatekeeper
    \/ CallerDegradation

SpecGatekeeper == InitGatekeeper /\ [][GatekeeperNext]_vars

(***************************************************************************)
(* SpecVerdict: _extract_recommendation applied to one text, for every     *)
(* text made of the words above.                                           *)
(***************************************************************************)
Texts == SUBSET Words

InitVerdict ==
    /\ Quiet
    /\ DefaultCaller
    /\ skillsImported \in BOOLEAN
    /\ max_workers = 5

\* parallel_executor.py:580-591: a call of _extract_recommendation
ExtractRecommendation ==
    /\ orch.pc = "idle" /\ orch.final_recommendation = None
    /\ \E content \in Texts :
          orch' = [orch EXCEPT
                     !.final_recommendation = extract_recommendation(content),
                     !.content = content]
    /\ UNCHANGED <<gw, skillsImported, tracker, rollback, mode, max_workers,
                   calls, pool, gate, estimate, budget, query, faults>>

VerdictNext == ExtractRecommendation

SpecVerdict == InitVerdict /\ [][VerdictNext]_vars

(***************************************************************************)
(* SpecPrompts: the prompts of the four steps of execute_diamond_debate    *)
(* and of build_planner, built from the outputs of the Architect, the      *)
(* Auditor and the Contextualist.                                          *)
(*                                                                         *)
(* A text is known by its length and by the place of the last newline      *)
(* among its first MAX_OUTPUT_CHARS characters (-1 when there is none).    *)
(***************************************************************************)
\* build_planner.py:56
MAX_OUTPUT_CHARS == 8000

\* len("\n\n[Output truncated due to size limits...]\n")
TruncationNoteLen == 43

OutputLens == {0, 600, 1500, 8000, 8001, 100000}

OutputTexts ==
    {text \in [len : OutputLens, last_newline : {-1, 3000, 7000}] :
        text.last_newline < text.len}

\* build_planner.py:127-150: the length of truncate_output(text)
truncate_output(text) ==
    IF text.len <= MAX_OUTPUT_CHARS THEN text.len
    ELSE (IF text.last_newline * 10 > MAX_OUTPUT_CHARS * 8
          THEN text.last_newline
          ELSE MAX_OUTPUT_CHARS) + TruncationNoteLen

\* the length of text[:n] for a text of the length len
Slice(len, n) == Min(len, n)

\* parallel_executor.py:663-734: {step1.content}, {step2.content} and
\* {step3.content} in the prompts of steps 2, 3 and 4
DebatePrompts(outputs) ==
    << <<>>,
       <<outputs[1].len>>,
       <<outputs[1].len, outputs[2].len>>,
       <<outputs[1].len, outputs[2].len, outputs[3].len>> >>

\* build_planner.py:235-431: the outputs pass truncate_output (237, 313,
\* 404) and are sliced where embedded (247, 323-326, 425-431)
PlannerPrompts(outputs) ==
    LET architect_output == truncate_output(outputs[1])
        auditor_output == truncate_output(outputs[2])
        contextualist_output == truncate_output(outputs[3])
    IN << <<>>,
          <<Slice(architect_output, 1500)>>,
          <<Slice(architect_output, 800), Slice(auditor_output, 800)>>,
          <<Slice(architect_output, 600), Slice(auditor_output, 600),
            Slice(contextualist_output, 600)>> >>

InitPrompts ==
    /\ Quiet
    /\ DefaultCaller
    /\ skillsImported \in BOOLEAN
    /\ max_workers = 5

\* the prompts of a debate whose first three steps answered with outputs
DebateBuildsPrompts ==
    /\ orch.pc = "idle" /\ orch.prompts.protocol = None
    /\ \E outputs \in [1..3 -> OutputTexts] :
          orch' = [orch EXCEPT !.prompts =
                      [protocol |-> "execute_diamond_debate",
                       outputs |-> outputs,
                       embedded |-> DebatePrompts(outputs)]]
    /\ UNCHANGED <<gw, skillsImported, tracker, rollback, mode, max_workers,
                   calls, pool, gate, estimate, budget, query, faults>>

\* the prompts of a planning run whose first three rounds answered with
\* outputs
PlannerBuildsPrompts ==
    /\ orch.pc = "idle" /\ orch.prompts.protocol = None
    /\ \E outputs \in [1..3 -> OutputTexts] :
          orch' = [orch EXCEPT !.prompts =
                      [protocol |-> "build_planner",
                       outputs |-> outputs,
                       embedded |-> PlannerPrompts(outputs)]]
    /\ UNCHANGED <<gw, skillsImported, tracker, rollback, mode, max_workers,
                   calls, pool, gate, estimate, budget, query, faults>>

PromptsNext ==
    \/ DebateBuildsPrompts
    \/ PlannerBuildsPrompts

SpecPrompts == InitPrompts /\ [][PromptsNext]_vars

(***************************************************************************)
(* SpecTier: classify_query_tier (models.py:234-277) applied to one query. *)
(*                                                                         *)
(* A query text is known by the fragments it holds: explicit tags and      *)
(* keywords of the three lists, each in lower case or in another case.     *)
(***************************************************************************)
QueryFragments ==
    {"@council_v2", "@COUNCIL_V2", "@council_lite", "@Council_Lite",
     "@research", "@RESEARCH",
     "implement a", "DEBUG", "pricing", "Release Notes",
     "architecture", " VS "}

\* str.lower() of one fragment
LowerFragment(fragment) ==
    CASE fragment = "@COUNCIL_V2" -> "@council_v2"
      [] fragment = "@Council_Lite" -> "@council_lite"
      [] fragment = "@RESEARCH" -> "@research"
      [] fragment = "DEBUG" -> "debug"
      [] fragment = "Release Notes" -> "release notes"
      [] fragment = " VS " -> " vs "
      [] OTHER -> fragment

\* models.py:247: query.lower()
lower(query_text) == {LowerFragment(fragment) : fragment \in query_text}

\* models.py:202-220: the keywords of the lists that the fragments spell
ARCHITECTURAL_KEYWORDS == {"architecture", " vs "}
SIMPLE_IMPLEMENTATION_KEYWORDS == {"implement a", "debug"}
EXTERNAL_DOCS_KEYWORDS == {"pricing", "release notes"}

\* a classification that asks for architecture keywords first
ClassifyArchitectureFirst(query_text) ==
    LET query_lower == lower(query_text)
    IN IF "@council_v2" \in query_lower THEN "tier_3"
       ELSE IF "@council_lite" \in query_lower THEN "tier_3_lite"
       ELSE IF "@research" \in query_lower THEN "tier_2"
       ELSE IF query_lower \cap ARCHITECTURAL_KEYWORDS # {} THEN "tier_3"
       ELSE IF query_lower \cap SIMPLE_IMPLEMENTATION_KEYWORDS # {}
       THEN "tier_1"
       ELSE IF query_lower \cap EXTERNAL_DOCS_KEYWORDS # {} THEN "tier_2"
       ELSE "tier_1"

\* models.py:234-277
classify_query_tier(query_text) ==
    LET query_lower == lower(query_text)
        has_simple_impl == query_lower \cap SIMPLE_IMPLEMENTATION_KEYWORDS # {}
        has_arch_keywords == query_lower \cap ARCHITECTURAL_KEYWORDS # {}
        has_docs_keywords == query_lower \cap EXTERNAL_DOCS_KEYWORDS # {}
    IN IF "@council_v2" \in query_lower THEN "tier_3"
       ELSE IF "@council_lite" \in query_lower THEN "tier_3_lite"
       ELSE IF "@research" \in query_lower THEN "tier_2"
       ELSE IF has_simple_impl THEN "tier_1"
       ELSE IF has_docs_keywords THEN "tier_2"
       ELSE IF has_arch_keywords THEN "tier_3"
       ELSE "tier_1"

InitTier ==
    /\ Quiet
    /\ skillsImported = TRUE
    /\ max_workers = 5
    /\ budget = [monthly_budget |-> 1000000, current_monthly_spend |-> 0]
    /\ query \in [text : SUBSET QueryFragments, keywords : {{}},
                  tier : {None}, max_cost : {0}, asks : {{}}]

\* a caller classifies its query
ClassifyQuery ==
    /\ query.tier = None
    /\ query' = [query EXCEPT !.tier = classify_query_tier(query.text)]
    /\ UNCHANGED <<gw, skillsImported, tracker, rollback, mode, max_workers,
                   calls, pool, orch, gate, estimate, budget, faults>>

TierNext == ClassifyQuery

SpecTier == InitTier /\ [][TierNext]_vars

(***************************************************************************)
(* SpecRepeat: a caller asks the same predictor and the same gatekeeper    *)
(* about the same query, more than once.                                   *)
(***************************************************************************)
MaxRepeats == 2

RepeatQueries ==
    [keywords : {{}, {"syntax_error"}, {"strategy"},
                 {"strategy", "code_implementation"}},
     tier : GateTiers,
     max_cost : {50, 3000, 26000},
     asks : {{"predictor", "gatekeeper"}}]

InitRepeat ==
    /\ Quiet
    /\ skillsImported \in BOOLEAN
    /\ max_workers = 5
    /\ budget \in GateBudgets
    /\ query \in RepeatQueries

\* predict_and_reserve once more on the same object
CallerPredictAgain ==
    /\ estimate.made /\ estimate.asked < MaxRepeats
    /\ predict_and_reserve(query.tier, query.max_cost)
    /\ UNCHANGED <<gw, skillsImported, tracker, rollback, mode, max_workers,
                   calls, pool, orch, gate, query, faults>>

\* should_invoke_opus once more on the same object
CallerGatekeeperAgain ==
    /\ gate.made /\ gate.asked < MaxRepeats
    /\ should_invoke_opus(query.keywords, query.tier)
    /\ UNCHANGED <<gw, skillsImported, tracker, rollback, mode, max_workers,
                   calls, pool, orch, estimate, query, faults>>

RepeatNext ==
    \/ CallerPredict
    \/ CallerPredictImportError
    \/ CallerPredictAgain
    \/ CallerGatekeeper
    \/ CallerGatekeeperAgain

SpecRepeat == InitRepeat /\ [][RepeatNext]_vars

(***************************************************************************)
(* SpecReserve: a caller submits one query after another to the same       *)
(* DiamondCostPredictor, each with its own tier and estimate.              *)
(***************************************************************************)
MaxReservations == 3

\* 10 dollars with nothing, half and all of it spent; 100 dollars
ReserveBudgets ==
    {[monthly_budget |-> 100000, current_monthly_spend |-> 0],
     [monthly_budget |-> 100000, current_monthly_spend |-> 50000],
     [monthly_budget |-> 100000, current_monthly_spend |-> 100000],
     [monthly_budget |-> 1000000, current_monthly_spend |-> 0]}

ReserveTiers == {"tier_1", "tier_2", "tier_3"}

\* estimated_max_cost of 0.30, 2 and 2.50 dollars, and one above the ceiling
ReserveCosts == {3000, 20000, 25000, 26000}

InitReserve ==
    /\ Quiet
    /\ skillsImported \in BOOLEAN
    /\ max_workers = 5
    /\ budget \in ReserveBudgets
    /\ \E tier \in ReserveTiers, max_cost \in ReserveCosts :
          query = [keywords |-> {}, tier |-> tier, max_cost |-> max_cost,
                   asks |-> {"predictor"}]

\* the next query goes to predict_and_reserve of the same object
CallerPredictNextQuery ==
    /\ estimate.made /\ estimate.asked < MaxReservations
    /\ \E tier \in ReserveTiers, max_cost \in ReserveCosts :
          /\ query' = [query EXCEPT !.tier = tier, !.max_cost = max_cost]
          /\ predict_and_reserve(tier, max_cost)
    /\ UNCHANGED <<gw, skillsImported, tracker, rollback, mode, max_workers,
                   calls, pool, orch, gate, faults>>

ReserveNext ==
    \/ CallerPredict
    \/ CallerPredictImportError
    \/ CallerPredictNextQuery

SpecReserve == InitReserve /\ [][ReserveNext]_vars

(***************************************************************************)
(* Properties of execute_parallel, checked under SpecStage.                *)
(***************************************************************************)
\* the call of task w ended in a successful response
CallSucceeded(w) ==
    calls[w].result.kind = "response" /\ calls[w].result.success

\* the tasks of the running stage whose call ended in failure
FailedCalls ==
    {w \in 1..Len(pool.models) : calls[w].pc = "done" /\ ~CallSucceeded(w)}

\* C1: when execute_parallel has returned for N model calls of which K ended
\* in failure, every one of the N calls has settled (no sibling was
\* cancelled or skipped), the result holds exactly N responses,
\* success_count is N - K and failure_count is K.
C1_AllSettledAndCounted ==
    pool.pc = "done" =>
        LET N == Len(pool.models)
            K == Cardinality(FailedCalls)
        IN /\ \A w \in 1..N : calls[w].pc = "done"
           /\ Len(pool.result.responses) = N
           /\ pool.result.success_count = N - K
           /\ pool.result.failure_count = K

\* a returned stage of three calls of which some failed and some succeeded
C1_Witness ==
    /\ pool.pc = "done"
    /\ Len(pool.models) = 3
    /\ Cardinality(FailedCalls) \in {1, 2}
    /\ pool.result.failure_count = Cardinality(FailedCalls)

(***************************************************************************)
(* Properties of CouncilGateway.call_model, checked under SpecGateway and  *)
(* FairSpecGateway.                                                        *)
(***************************************************************************)
AllOutcomes(log, outcomes) ==
    \A i \in 1..Len(log) : log[i].outcome \in outcomes

\* the aliases tried in turn from model on, up to the first one without
\* fallback entry or the first one met twice
RECURSIVE FallbackChain(_, _)
FallbackChain(model, seen) ==
    IF model \in DOMAIN MODEL_FALLBACKS /\ MODEL_FALLBACKS[model] \notin seen
    THEN <<model>> \o FallbackChain(MODEL_FALLBACKS[model],
                                    seen \cup {MODEL_FALLBACKS[model]})
    ELSE <<model>>

chain_length(model) == Len(FallbackChain(model, {model}))

\* the chain from model ends at an alias without fallback entry
Acyclic(model) ==
    FallbackChain(model, {model})[chain_length(model)]
        \notin DOMAIN MODEL_FALLBACKS

\* C2: when every request of a call_model(m) call ends in a network timeout,
\* exactly 1 + max_retries requests (3) are posted, all of them to m with
\* the same timeout, and the call returns a failed response carrying a
\* timeout error.
C2_TimeoutRetriesSameModel ==
    (gw.pc = "done" /\ gw.log # <<>> /\ AllOutcomes(gw.log, {"timeout"})) =>
        /\ Len(gw.log) = 1 + max_retries
        /\ Len(gw.log) = 3
        /\ \A i \in 1..Len(gw.log) :
              /\ gw.log[i].model = gw.requested
              /\ gw.log[i].timeout = gw.log[1].timeout
              /\ gw.log[i].attempt = i - 1
        /\ ~gw.result.success
        /\ gw.result.error = "Request timeout"
        /\ gw.result.model = gw.requested

\* a returned call whose three requests all timed out
C2_Witness ==
    /\ gw.pc = "done"
    /\ Len(gw.log) = 3
    /\ AllOutcomes(gw.log, {"timeout"})
    /\ gw.result.error = "Request timeout"

\* C3: a response call_model returns that was produced by a fallback alias
\* carries fallback_used = the alias originally requested.
C3_GatewayTagsFallback ==
    (gw.pc = "done" /\ gw.depth > 0) =>
        gw.result.fallback_used = gw.requested

\* C6: for an alias whose fallback chain is acyclic, a call whose every
\* request fails posts at most chain_length * (1 + max_retries) requests,
\* returns a failed response, and does return.
C6_RequestsBounded ==
    Acyclic(gw.requested) =>
        /\ Len(gw.log) <= chain_length(gw.requested) * (1 + max_retries)
        /\ (gw.pc = "done" /\ AllOutcomes(gw.log, Failures)) =>
               ~gw.result.success

C6_AcyclicChainTerminates ==
    /\ []C6_RequestsBounded
    /\ (gw.pc = "request" /\ Acyclic(gw.requested)) ~> (gw.pc = "done")

\* a call over a chain of three aliases that returned failed after requests
\* to each of them, the last one retried to the end
C6_Witness ==
    /\ gw.pc = "done"
    /\ Acyclic(gw.requested)
    /\ chain_length(gw.requested) = 3
    /\ gw.depth = 2
    /\ Len(gw.log) = 5
    /\ AllOutcomes(gw.log, Failures)
    /\ ~gw.result.success

\* C8: a request to an alias without fallback entry that fails for a
\* non-timeout reason is the last request of the call, which returns a
\* failed response for that alias at once.
C8_NoFallbackFailsAtOnce ==
    \A i \in 1..Len(gw.log) :
        (/\ gw.log[i].model \notin DOMAIN MODEL_FALLBACKS
         /\ gw.log[i].outcome \in Failures \ {"timeout"}) =>
            /\ i = Len(gw.log)
            /\ gw.pc = "done"
            /\ ~gw.result.success
            /\ gw.result.model = gw.log[i].model

\* a call for the alias without entry that failed on its first request
C8_Witness ==
    /\ gw.pc = "done"
    /\ gw.requested = "gemini-flash-fallback"
    /\ Len(gw.log) = 1
    /\ gw.log[1].outcome = "reqfail"
    /\ gw.result.error = "Request failed"

(***************************************************************************)
(* Properties of ParallelExecutor._execute_model, checked under            *)
(* SpecExecutor: the call followed is calls[1].                            *)
(***************************************************************************)
\* the handlers in which the frames below the top one called a fallback
HandlersTaken(call) ==
    {call.stack[i].handler : i \in 1..(Len(call.stack) - 1)}

CycleAliases == {"claude-sonnet", "opus-synthesis"}

\* C4: a request that timed out never makes _execute_model call the
\* fallback alias.
C4_TimeoutNeverCallsFallback == "Timeout" \notin HandlersTaken(calls[1])

\* C5: a response that lacks the content field ends the _execute_model call:
\* no fallback is called, and the call returns a failed response for the
\* requested model.
C5_MalformedEndsCall ==
    [][ExecuteModelMalformed(1) =>
          /\ calls'[1].pc = "done"
          /\ calls'[1].result.kind = "response"
          /\ ~calls'[1].result.success
          /\ calls'[1].result.model = calls[1].model]_vars

\* C7: an _execute_model call for an alias of the claude-sonnet /
\* opus-synthesis cycle whose requests all failed for a non-timeout reason
\* ends with a failed response.
C7_CycleEndsInFailedResponse ==
    (/\ calls[1].pc = "done"
     /\ calls[1].model \in CycleAliases
     /\ HandlersTaken(calls[1]) = {"Exception"}
     /\ ~CallSucceeded(1)) =>
        calls[1].result.kind = "response"

(***************************************************************************)
(* Properties of the protocols, checked under SpecOrchestrator.            *)
(***************************************************************************)
\* the aliases requested so far by the protocol run
PostedSoFar == orch.posted \cup PostedNow

\* C9: in execute_diamond and execute_diamond_debate a request to
\* opus-synthesis, planned or reached as a fallback, is made only after the
\* gatekeeper has decided INVOKE for the query.
C9_OpusOnlyAfterInvoke ==
    (orch.pc # "idle" /\ "opus-synthesis" \in PostedSoFar) =>
        (gate.made /\ gate.decision = "INVOKE")

\* C10: for a query whose budget check answered can_proceed = false the
\* orchestrator makes no model call.
C10_RejectedQueryNotDispatched ==
    (estimate.made /\ ~estimate.can_proceed) => PostedSoFar = {}

(***************************************************************************)
(* Properties of execute_diamond under failing models, checked under       *)
(* SpecDiamond.                                                            *)
(***************************************************************************)
Recommendations == {"APPROVED", "CONDITIONAL", "REJECTED", "UNCLEAR"}

\* the stages that have returned, when the protocol is at pc
StagesBefore(pc) ==
    CASE pc = "context" -> {}
      [] pc = "deliberation" -> {"context"}
      [] pc = "synthesis" -> {"context", "deliberation"}
      [] OTHER -> {"context", "deliberation", "synthesis"}

\* the model list of the stage the protocol waits for at pc
StageModels(pc) ==
    CASE pc = "context" -> stage1_context
      [] pc = "deliberation" -> stage2_deliberate
      [] OTHER -> stage3_synthesize

\* a stage result holds one response, and no exception, per model of the
\* stage
WholeResult(result, models) ==
    /\ Len(result.responses) = Len(models)
    /\ \A i \in 1..Len(result.responses) :
          result.responses[i].kind = "response"
    /\ result.success_count + result.failure_count = Len(models)

AllFailed(result) == result.success_count = 0

\* C20: whatever requests fail in stages 1 to 3, execute_diamond runs
\* context, deliberation and synthesis once each in that order, a stage
\* starting only when the stage before it has returned its result; it does
\* not raise; and the result it returns has a final_recommendation among
\* APPROVED, CONDITIONAL, REJECTED, UNCLEAR.
C20_DiamondRunsThreeStages ==
    /\ orch.pc # "raised" /\ pool.pc # "raised"
    /\ orch.pc \in {"context", "deliberation", "synthesis"} =>
          /\ DOMAIN orch.stages = StagesBefore(orch.pc)
          /\ pool.pc \in {"running", "done"}
          /\ pool.models = StageModels(orch.pc)
    /\ orch.pc = "done" =>
          /\ DOMAIN orch.stages = {"context", "deliberation", "synthesis"}
          /\ orch.final_recommendation \in Recommendations
    /\ \A stage \in DOMAIN orch.stages :
          WholeResult(orch.stages[stage], StageModels(stage))

\* a run that returned although both models of stage 1 failed, with the
\* fallback table in use
C20_Witness ==
    /\ orch.pc = "done"
    /\ skillsImported
    /\ AllFailed(orch.stages["context"])
    /\ orch.stages["deliberation"].success_count = 3
    /\ orch.final_recommendation \in Recommendations

(***************************************************************************)
(* Properties of the cost predictor, checked under SpecPredictor.          *)
(***************************************************************************)
Remaining == budget.monthly_budget - budget.current_monthly_spend

CeilingPasses == estimate.estimated_max_cost <= MAX_COST_PER_QUERY
BudgetPasses == estimate.estimated_max_cost <= Remaining
TierPasses ==
    estimate.estimated_max_cost * 100
        <= Remaining * tier_budget_allocation(estimate.tier)

\* C11: predict_and_reserve never answers can_proceed = true for an
\* estimated_max_cost above the per-query ceiling of 2.50 dollars, whatever
\* the tier, the monthly budget and the spend.
C11_CeilingNeverPassed ==
    (estimate.made /\ estimate.estimated_max_cost > MAX_COST_PER_QUERY) =>
        ~estimate.can_proceed

\* an estimate over the ceiling refused although the budget has room for it
C11_Witness ==
    /\ estimate.made
    /\ estimate.estimated_max_cost = 26000
    /\ BudgetPasses /\ TierPasses
    /\ ~estimate.can_proceed

\* C12: check_budget_reservation checks the per-query ceiling, then the
\* remaining monthly budget, then the remaining tier allocation: it answers
\* can_proceed = true exactly when all three pass, and otherwise its reason
\* is that of the first check that fails.
C12_FirstFailingCheckWins ==
    estimate.made =>
        /\ estimate.can_proceed <=>
              (CeilingPasses /\ BudgetPasses /\ TierPasses)
        /\ estimate.reason =
              (IF ~CeilingPasses THEN "exceeds per-query ceiling"
               ELSE IF ~BudgetPasses THEN "Insufficient budget"
               ELSE IF ~TierPasses THEN "Tier budget exceeded"
               ELSE "Budget available")

\* an estimate that fails the first two checks and is refused for the first
C12_Witness ==
    /\ estimate.made
    /\ ~CeilingPasses /\ ~BudgetPasses
    /\ Remaining > 0
    /\ estimate.reason = "exceeds per-query ceiling"

(***************************************************************************)
(* Properties of the gatekeeper, checked under SpecGatekeeper.             *)
(***************************************************************************)
MandatoryCategories ==
    {"strategy", "architecture", "client_communication", "executive"}

SkipCategories == {"code_implementation", "simple_debugging", "syntax_error"}

HasMandatory == query.keywords \cap MandatoryCategories # {}

HasSkip == query.keywords \cap SkipCategories # {}

OpusRemaining == budget.monthly_budget - budget.current_monthly_spend

\* C13, as stated: should_invoke_opus never answers INVOKE for a query that
\* holds a skip keyword, whatever else the query holds.
C13_SkipKeywordNeverInvokes ==
    (gate.made /\ HasSkip) => gate.decision # "INVOKE"

\* C13: should_invoke_opus never answers INVOKE for a query that holds a
\* skip keyword and no mandatory keyword, for every tier and budget state.
C13_SkipWithoutMandatoryNeverInvokes ==
    (gate.made /\ HasSkip /\ ~HasMandatory) => gate.decision # "INVOKE"

\* a skip query at the highest tier with the whole budget left
C13_Witness ==
    /\ gate.made /\ HasSkip /\ ~HasMandatory
    /\ gate.tier = "tier_3"
    /\ budget.current_monthly_spend = 0 /\ budget.monthly_budget = 1000000
    /\ gate.decision = "SKIP"

\* the seven rules of the decision, the first applicable one deciding
DecisionByRules ==
    IF gate.category[1] = "MANDATORY" /\ OpusRemaining >= 5000
    THEN "INVOKE"
    ELSE IF gate.category[1] = "MANDATORY" /\ OpusRemaining < 5000
    THEN "BUDGET_BLOCK"
    ELSE IF gate.category[1] = "SKIP" THEN "SKIP"
    ELSE IF budget.current_monthly_spend * 10 > budget.monthly_budget * 4
    THEN "BUDGET_BLOCK"
    ELSE IF gate.tier = "tier_3" /\ OpusRemaining >= 5000 THEN "INVOKE"
    ELSE IF gate.tier = "tier_3" /\ OpusRemaining < 5000
    THEN "BUDGET_BLOCK"
    ELSE "SKIP"

\* C14: the decision of should_invoke_opus is the one of the first
\* applicable rule among: mandatory with at least 0.50 left, INVOKE;
\* mandatory with less, BUDGET_BLOCK; skip category, SKIP; spend above 40%
\* of the monthly budget, BUDGET_BLOCK; tier_3 with at least 0.50 left,
\* INVOKE; tier_3 with less, BUDGET_BLOCK; otherwise SKIP.
C14_DecisionFollowsRules ==
    gate.made =>
        /\ gate.decision = DecisionByRules
        /\ gate.category[1] = "MANDATORY" <=> HasMandatory
        /\ gate.category[1] = "SKIP" <=> (HasSkip /\ ~HasMandatory)

\* a mandatory query decided with exactly 0.50 dollars left
C14_Witness ==
    /\ gate.made /\ gate.category[1] = "MANDATORY"
    /\ OpusRemaining = 5000
    /\ gate.decision = "INVOKE"

\* C15: a query with a skip keyword and no mandatory keyword gets the
\* decision SKIP with the category SKIP:<name>, the name being a skip
\* category of the query, for every tier and every budget state.
C15_SkipIsAbsolute ==
    (gate.made /\ HasSkip /\ ~HasMandatory) =>
        /\ gate.decision = "SKIP"
        /\ gate.category[1] = "SKIP"
        /\ gate.category[2] \in query.keywords \cap SkipCategories

\* a skip query at tier_3 with the budget spent beyond the gate and less
\* than the floor left
C15_Witness ==
    /\ gate.made /\ HasSkip /\ ~HasMandatory
    /\ gate.tier = "tier_3"
    /\ budget.current_monthly_spend * 10 > budget.monthly_budget * 4
    /\ OpusRemaining < 5000
    /\ gate.decision = "SKIP"

\* C16: recommend_degradation answers "gemini-pro" exactly when the decision
\* is BUDGET_BLOCK, or SKIP at tier_3; for INVOKE and for SKIP at another
\* tier it answers None.
C16_DegradationTable ==
    gate.alternative # "unasked" =>
        IF \/ gate.decision = "BUDGET_BLOCK"
           \/ gate.decision = "SKIP" /\ gate.tier = "tier_3"
        THEN gate.alternative = "gemini-pro"
        ELSE gate.alternative = None

\* an alternative offered for a SKIP at tier_3
C16_Witness ==
    /\ gate.alternative = "gemini-pro"
    /\ gate.decision = "SKIP" /\ gate.tier = "tier_3"

(***************************************************************************)
(* Properties of the ratification step, checked under SpecOrchestrator.    *)
(***************************************************************************)
\* the step in which execute_diamond leaves stage 3: orch'.pc tells whether
\* stage 4 was started, orch'.final_recommendation is the verdict of step 3
LeavesSynthesis == orch.pc = "synthesis" /\ orch'.pc # "synthesis"

PolicyAsks ==
    \/ orch.opus_threshold = "always"
    \/ orch.opus_threshold = "conditional"
          /\ orch'.final_recommendation # "APPROVED"

\* C17, as stated: the ratification step of execute_diamond is invoked in
\* every run under the policy always, in no run under never, and under
\* conditional exactly when the verdict of step 3 is not APPROVED.
C17_RatificationFollowsPolicy ==
    [][LeavesSynthesis => (orch'.pc = "ratification" <=> PolicyAsks)]_vars

\* C17: when execute_diamond is called with invoke_opus true, ratification
\* is invoked in every run under always, in no run under never, and under
\* conditional exactly when the verdict of step 3 is not APPROVED; called
\* with invoke_opus false, it is invoked in no run.
C17_RatificationFollowsFlagAndPolicy ==
    [][LeavesSynthesis =>
          (orch'.pc = "ratification" <=> (orch.invoke_opus /\ PolicyAsks))]_vars

\* ratification started under the conditional policy after a verdict other
\* than APPROVED
C17_Witness ==
    /\ orch.pc = "ratification"
    /\ orch.invoke_opus /\ orch.opus_threshold = "conditional"
    /\ orch.final_recommendation = "CONDITIONAL"

(***************************************************************************)
(* Properties of the verdict extraction, checked under SpecVerdict.        *)
(***************************************************************************)
Extracted == orch.final_recommendation # None

\* does the text hold the token, in either case
Holds(token) == \E word \in orch.content : UpperWord(word) = token

\* C18: the verdict extracted from a text is, case-insensitively: REJECTED
\* when REJECTED is present; else CONDITIONAL when CONDITIONAL or
\* NEEDS_DEBATE is present; else APPROVED when APPROVED is present; else
\* UNCLEAR.
C18_RejectedFirst ==
    Extracted =>
        orch.final_recommendation =
            IF Holds("REJECTED") THEN "REJECTED"
            ELSE IF Holds("CONDITIONAL") \/ Holds("NEEDS_DEBATE")
            THEN "CONDITIONAL"
            ELSE IF Holds("APPROVED") THEN "APPROVED"
            ELSE "UNCLEAR"

\* C19, as stated: the extraction gives CONDITIONAL for every text holding
\* both APPROVED and CONDITIONAL, and UNCLEAR for every text holding none of
\* APPROVED, CONDITIONAL and REJECTED.
C19_ConservativeBias ==
    Extracted =>
        /\ (Holds("APPROVED") /\ Holds("CONDITIONAL"))
              => orch.final_recommendation = "CONDITIONAL"
        /\ ~(Holds("APPROVED") \/ Holds("CONDITIONAL") \/ Holds("REJECTED"))
              => orch.final_recommendation = "UNCLEAR"

\* C19: the extraction gives CONDITIONAL for every text holding both
\* APPROVED and CONDITIONAL and not REJECTED, and UNCLEAR for every text
\* holding none of APPROVED, CONDITIONAL, REJECTED and NEEDS_DEBATE.
C19_ConservativeBiasWithoutRejected ==
    Extracted =>
        /\ (Holds("APPROVED") /\ Holds("CONDITIONAL") /\ ~Holds("REJECTED"))
              => orch.final_recommendation = "CONDITIONAL"
        /\ ~(\/ Holds("APPROVED") \/ Holds("CONDITIONAL")
             \/ Holds("REJECTED") \/ Holds("NEEDS_DEBATE"))
              => orch.final_recommendation = "UNCLEAR"

\* a text in mixed case holding APPROVED and CONDITIONAL, read as
\* CONDITIONAL
C19_Witness ==
    /\ orch.content = {"approved", "CONDITIONAL", "looks good"}
    /\ orch.final_recommendation = "CONDITIONAL"

(***************************************************************************)
(* Properties of execute_diamond_debate, checked under SpecOrchestrator.   *)
(***************************************************************************)
\* C21: execute_diamond_debate always returns a DiamondDebateResult: for
\* every combination of failures of the four step calls and their fallback
\* aliases it ends without raising, and the result holds one response per
\* step.
C21_DebateAlwaysReturns ==
    (orch.pc = "raised" \/ orch.result = "DiamondDebateResult") =>
        /\ orch.pc = "done"
        /\ orch.result = "DiamondDebateResult"
        /\ Len(orch.steps) = Len(DebateSteps)

ArchitectFailed ==
    orch.result = "DiamondDebateResult" /\ ~orch.steps[1].success

\* C22: when the Architect step of execute_diamond_debate fails, no request
\* is issued for the Auditor, Contextualist or Judge steps; the three steps
\* are reported as failed responses whose error names the failed Architect;
\* and the totals of latency, cost and tokens are those of the Architect
\* step alone.
C22_ArchitectFailureSkipsRest ==
    ArchitectFailed =>
        /\ orch.posted \cap {DebateModels[i] : i \in 2..4} = {}
        /\ Len(orch.steps) = 4
        /\ \A i \in 2..4 :
              /\ orch.steps[i].model = DebateModels[i]
              /\ ~orch.steps[i].success
              /\ orch.steps[i].error = "Architect failed, skipping"
        /\ orch.totals.total_latency = orch.steps[1].latency_seconds
        /\ orch.totals.total_cost = orch.steps[1].cost
        /\ orch.totals.total_tokens = orch.steps[1].tokens_used

\* the Architect call and its fallbacks timed out after 60 seconds
C22_Witness ==
    /\ ArchitectFailed
    /\ orch.steps[1].error = "Timeout"
    /\ orch.totals.total_latency = 60
    /\ orch.posted # {}

(***************************************************************************)
(* Properties of the step prompts, checked under SpecPrompts.              *)
(***************************************************************************)
\* the budget of one embedded output: a truncated output and its note
EmbedBudget == MAX_OUTPUT_CHARS + TruncationNoteLen

EmbeddedWithinBudget ==
    \A i \in 1..Len(orch.prompts.embedded) :
        \A j \in 1..Len(orch.prompts.embedded[i]) :
            orch.prompts.embedded[i][j] <= EmbedBudget

\* C23: in the four-step debate every upstream output embedded in a later
\* step's prompt is truncated to a fixed character budget, so the length of
\* a step's prompt does not grow with the length of earlier outputs; for
\* execute_diamond_debate and for build_planner.
C23_EmbeddedOutputsBounded ==
    orch.prompts.protocol \in {"execute_diamond_debate", "build_planner"}
        => EmbeddedWithinBudget

\* the planner alone keeps every embedded output within the budget
C23_PlannerEmbedsBounded ==
    orch.prompts.protocol = "build_planner" => EmbeddedWithinBudget

(***************************************************************************)
(* Properties of the tier classification, checked under SpecTier.          *)
(***************************************************************************)
\* does the query hold one of the fragments, in whatever case
Mentions(fragments) ==
    \E fragment \in query.text : LowerFragment(fragment) \in fragments

\* C24: classify_query_tier answers for every query, and its answer is the
\* one of the first matching rule of: tag @council_v2, tier_3; tag
\* @council_lite, tier_3_lite; tag @research, tier_2; a simple-implementation
\* keyword, tier_1; an external-documentation keyword, tier_2; an
\* architecture or comparison keyword, tier_3; otherwise tier_1.
C24_TierByFirstRule ==
    query.tier # None =>
        query.tier =
            IF Mentions({"@council_v2"}) THEN "tier_3"
            ELSE IF Mentions({"@council_lite"}) THEN "tier_3_lite"
            ELSE IF Mentions({"@research"}) THEN "tier_2"
            ELSE IF Mentions({"implement a", "debug"}) THEN "tier_1"
            ELSE IF Mentions({"pricing", "release notes"}) THEN "tier_2"
            ELSE IF Mentions({"architecture", " vs "}) THEN "tier_3"
            ELSE "tier_1"

\* a simple-implementation keyword in upper case wins over an architecture
\* keyword
C24_Witness ==
    /\ query.tier = "tier_1"
    /\ query.text = {"DEBUG", "architecture", "pricing"}

(***************************************************************************)
(* Properties of the predictor's degradation, checked under SpecPredictor. *)
(***************************************************************************)
BudgetReasons ==
    {"Insufficient budget", "Tier budget exceeded", "Budget available"}

\* C25: DiamondCostPredictor.recommend_degradation maps a tier_3 estimate
\* to tier_1 when its reason mentions budget and to tier_3_lite otherwise,
\* which is the rejection by the per-query ceiling; it maps tier_2 to
\* tier_1 and tier_1 to itself.
C25_PredictorDegradation ==
    estimate.degraded # "unasked" =>
        /\ estimate.tier = "tier_3" =>
              /\ estimate.reason \in BudgetReasons
                    => estimate.degraded = "tier_1"
              /\ estimate.reason \notin BudgetReasons
                    => /\ estimate.degraded = "tier_3_lite"
                       /\ estimate.estimated_max_cost > MAX_COST_PER_QUERY
        /\ estimate.tier = "tier_2" => estimate.degraded = "tier_1"
        /\ estimate.tier = "tier_1" => estimate.degraded = "tier_1"

\* a tier_3 estimate over the ceiling, sent to tier_3_lite
C25_Witness ==
    /\ estimate.tier = "tier_3"
    /\ ~estimate.can_proceed
    /\ estimate.reason = "exceeds per-query ceiling"
    /\ estimate.degraded = "tier_3_lite"

(***************************************************************************)
(* Properties of the thread pool, checked under FairSpecStage.             *)
(***************************************************************************)
\* the tasks of the running stage that a pool thread has taken
Dispatched == {w \in 1..Len(pool.models) : calls[w].pc # "idle"}

AllDispatched == Dispatched = 1..Len(pool.models)

\* C26: during execute_parallel over N models the number of model calls in
\* flight never exceeds max_workers, and each of the N calls is eventually
\* dispatched, also when N is larger than max_workers.
C26_InFlightBoundedAllDispatched ==
    /\ [](Cardinality(PoolRunning) <= max_workers)
    /\ (pool.pc = "running") ~> (pool.pc = "done" /\ AllDispatched)

\* a stage of more models than threads, every call of which has run
C26_Witness ==
    /\ pool.pc = "done"
    /\ Len(pool.models) > max_workers
    /\ AllDispatched
    /\ \A w \in 1..Len(pool.models) : calls[w].pc = "done"

(***************************************************************************)
(* Properties of the failures of a stage, checked under SpecStage.         *)
(***************************************************************************)
\* the tasks of the stage whose worker let an exception escape
FaultedCalls ==
    {w \in 1..Len(pool.models) :
        calls[w].pc = "done" /\ calls[w].result.kind = "raised"}

\* C27: execute_parallel never raises for the failure of a model, and an
\* exception that escapes a worker is reported as a failure of the stage,
\* apart from the failed responses of its models: it is no entry of the
\* response list and is not counted in failure_count.
C27_ExecutionFaultReportedApart ==
    /\ pool.pc = "raised" => Len(pool.models) = 0
    /\ pool.pc = "done" =>
          /\ Len(pool.result.responses)
                = Len(pool.models) - Cardinality(FaultedCalls)
          /\ pool.result.failure_count
                = Cardinality(FailedCalls \ FaultedCalls)

\* execute_parallel returns whatever its models and workers do
C27_NeverRaisesForModelFailure ==
    pool.pc = "raised" => Len(pool.models) = 0

\* C28: after execute_parallel, for every requested alias whose call ended
\* in a successful response, answered by the alias itself or by a fallback
\* alias, get_model_content finds that response under the requested alias,
\* whatever the order in which the calls completed.
C28_ContentFoundUnderRequestedAlias ==
    pool.pc = "done" =>
        \A w \in 1..Len(pool.models) :
            CallSucceeded(w) => HasModelContent(pool.result, pool.models[w])

\* the same for the calls that their own alias answered
C28_ContentFoundWithoutFallback ==
    pool.pc = "done" =>
        \A w \in 1..Len(pool.models) :
            (CallSucceeded(w) /\ Len(calls[w].stack) = 1)
                => HasModelContent(pool.result, pool.models[w])

(***************************************************************************)
(* Properties of a single _execute_model call, checked under SpecExecutor. *)
(***************************************************************************)
\* C29: a successful response for which the backend supplied no usage data
\* reports 0 tokens and a cost of 0, for every model alias.
C29_MissingUsageCostsNothing ==
    \A w \in Workers :
        (calls[w].pc = "done" /\ CallSucceeded(w) /\ calls[w].usage = "absent")
            => /\ calls[w].result.tokens_used = 0
               /\ calls[w].result.cost = 0

\* without usage data the call still succeeds and reports 0 tokens
C29_MissingUsageCountsNoTokens ==
    \A w \in Workers :
        (calls[w].pc = "done" /\ calls[w].usage = "absent")
            => /\ CallSucceeded(w)
               /\ calls[w].result.tokens_used = 0

MODEL_PRICING ==
    ("claude-opus-4-5-20251101" :> <<15000, 75000>>) @@
    ("claude-sonnet-4-20250514" :> <<3000, 15000>>) @@
    ("claude-haiku-4-20250514" :> <<800, 4000>>) @@
    ("gemini-3-pro-preview" :> <<0, 0>>) @@
    ("gemini-2.0-flash" :> <<75, 300>>) @@
    ("gemini-2.0-flash-thinking" :> <<75, 300>>) @@
    ("deepseek-chat" :> <<270, 1100>>) @@
    ("deepseek-reasoner" :> <<550, 2190>>) @@
    ("kimi-k2-thinking-turbo" :> <<1200, 12000>>) @@
    ("kimi-k2-thinking" :> <<1200, 12000>>) @@
    ("kimi-k2.5" :> <<1200, 12000>>) @@
    ("gemini-2.0-flash-exp" :> <<75, 300>>)

\* pricing.py:95-114
COUNCIL_MODEL_ALIASES ==
    ("gemini-architect" :> "gemini-2.0-flash-exp") @@
    ("gemini-flash" :> "gemini-2.0-flash") @@
    ("gemini-flash-latest" :> "gemini-2.0-flash-exp") @@
    ("gemini-flash-fallback" :> "gemini-2.0-flash") @@
    ("gemini-3-pro-semifinal" :> "gemini-2.0-flash") @@
    ("gemini-pro" :> "gemini-2.0-flash-exp") @@
    ("gemini-pro-latest" :> "gemini-3-pro-preview") @@
    ("deepseek-v3" :> "deepseek-chat") @@
    ("deepseek-security" :> "deepseek-reasoner") @@
    ("kimi-researcher" :> "kimi-k2-thinking-turbo") @@
    ("kimi-deep" :> "kimi-k2-thinking") @@
    ("kimi-synthesis" :> "kimi-k2.5") @@
    ("claude-sonnet" :> "claude-sonnet-4-20250514") @@
    ("opus-synthesis" :> "claude-opus-4-5-20251101") @@
    ("perplexity-online" :> "perplexity-online") @@
    ("perplexity-researcher" :> "perplexity-researcher")

\* pricing.py:122-131: cost_per_search
PERPLEXITY_PRICING ==
    ("perplexity-online" :> 2000000) @@ ("perplexity-researcher" :> 1000000)

\* pricing.py:173-207: get_pricing; an unknown model gets the prices 1.0
\* and 5.0
get_pricing(model_alias) ==
    LET underlying_model ==
            IF model_alias \in DOMAIN COUNCIL_MODEL_ALIASES
            THEN COUNCIL_MODEL_ALIASES[model_alias] ELSE model_alias
    IN IF model_alias \in DOMAIN PERPLEXITY_PRICING
       THEN <<PERPLEXITY_PRICING[model_alias] \div 1000, 0>>
       ELSE IF underlying_model \notin DOMAIN MODEL_PRICING
       THEN <<1000, 5000>>
       ELSE MODEL_PRICING[underlying_model]

\* round(x, ndigits) for an amount x >= 0 and the unit of the last digit
\* kept; a tie goes to the even neighbour
Round(x, unit) ==
    LET down == (x \div unit) * unit
        rest == x % unit
    IN IF 2 * rest < unit THEN down
       ELSE IF 2 * rest > unit THEN down + unit
       ELSE IF (x \div unit) % 2 = 0 THEN down ELSE down + unit

\* pricing.py:210-232: calculate_cost, rounded to 6 decimal places. The
\* result is <<>> when the lookup of the price raised.
calculate_cost(model, prompt_tokens, completion_tokens) ==
    LET price == get_pricing(model)
    IN IF price = <<>> THEN <<>>
       ELSE <<Round(prompt_tokens * price[1] + completion_tokens * price[2],
                    1000)>>

\* diamond_cost_predictor.py:152-168: what one model adds to min_cost and
\* to max_cost. Without the pricing module (import failed at 23-35) the name
\* calculate_cost is undefined and the import at 156 fails: the handler of
\* 165 answers for every model.
ModelCost(model, input_tokens, output_per_model, pricing_imported) ==
    LET output_tokens ==
            IF model \in DOMAIN output_per_model
            THEN output_per_model[model] ELSE 1000
        cost == calculate_cost(model, input_tokens, output_tokens)
    IN IF ~pricing_imported THEN <<10000000, 50000000>>
       ELSE IF model \in {"perplexity-online", "perplexity-researcher"}
       THEN <<PERPLEXITY_PRICING[model], PERPLEXITY_PRICING[model]>>
       ELSE IF cost = <<>> THEN <<10000000, 50000000>>
       ELSE <<cost[1], cost[1]>>

RECURSIVE SumModelCosts(_, _, _, _)
SumModelCosts(models, input_tokens, output_per_model, pricing_imported) ==
    IF models = <<>> THEN <<0, 0>>
    ELSE LET first == ModelCost(Head(models), input_tokens, output_per_model,
                                pricing_imported)
             rest == SumModelCosts(Tail(models), input_tokens,
                                   output_per_model, pricing_imported)
         IN <<first[1] + rest[1], first[2] + rest[2]>>

\* diamond_cost_predictor.py:129-170: the sums, rounded to 4 decimal places
estimate_tier_cost(models, input_tokens, output_per_model, pricing_imported) ==
    LET sums == SumModelCosts(models, input_tokens, output_per_model,
                              pricing_imported)
    IN [made |-> TRUE,
        min_cost |-> Round(sums[1], 100000),
        max_cost |-> Round(sums[2], 100000)]

\* aliases of the tables, a name of an underlying model, and two names
\* that are in no table
CostModels ==
    {"claude-sonnet", "gemini-pro", "kimi-researcher", "perplexity-online",
     "deepseek-reasoner", "mystery-model", "gpt-4"}

MaxCostModels == 3

CostModelLists ==
    UNION {[1..n -> CostModels] : n \in 1..MaxCostModels}

\* input token counts: diamond_cost_predictor.py:105, int(len * 0.25)
InputTokens == {0, 250, 1001, 40000}

\* output_per_model: empty, or one count for every model of the list
OutputTokens == {0, 333, 2000}

InitTierCost ==
    /\ Quiet
    /\ skillsImported \in BOOLEAN
    /\ max_workers = 5
    /\ budget = [monthly_budget |-> 1000000, current_monthly_spend |-> 0]
    /\ \E models \in CostModelLists, input_tokens \in InputTokens,
          output_tokens \in OutputTokens, pricing_imported \in BOOLEAN :
          query = [keywords |-> {}, tier |-> "tier_3", asks |-> {},
                   models |-> models, input_tokens |-> input_tokens,
                   output_per_model |->
                       IF output_tokens = 0 THEN [m \in {} |-> 0]
                       ELSE [m \in {models[i] : i \in DOMAIN models}
                               |-> output_tokens],
                   pricing_imported |-> pricing_imported,
                   costs |-> [made |-> FALSE, min_cost |-> 0, max_cost |-> 0]]

\* diamond_cost_predictor.py:239: the caller estimates the cost range
CallerEstimateTierCost ==
    /\ ~query.costs.made
    /\ query' = [query EXCEPT !.costs =
                    estimate_tier_cost(query.models, query.input_tokens,
                                       query.output_per_model,
                                       query.pricing_imported)]
    /\ UNCHANGED <<gw, skillsImported, tracker, rollback, mode, max_workers,
                   calls, pool, orch, gate, estimate, budget, faults>>

TierCostNext == CallerEstimateTierCost

SpecTierCost == InitTierCost /\ [][TierCostNext]_vars

\* the process before a mode function or the tracker has acted
InitReporting ==
    /\ Quiet
    /\ DefaultCaller
    /\ skillsImported \in BOOLEAN
    /\ max_workers = 5

(***************************************************************************)
(* SpecTracker: the callers of track_api_call, the flush thread and        *)
(* shutdown(), interleaved.                                                *)
(***************************************************************************)
TrackerNext ==
    \/ track_api_call
    \/ FlushLoopCheck
    \/ FlushLoopWake
    \/ \E th \in FlushThreads : FlushWriteCommits(th)
    \/ \E th \in FlushThreads : FlushWriteFails(th)
    \/ \E th \in FlushThreads : FlushRequeue(th)
    \/ shutdown
    \/ ShutdownFlush

SpecTracker == InitReporting /\ [][TrackerNext]_vars

(***************************************************************************)
(* SpecReporting: one model call of a mode function or of                  *)
(* TrackedCouncilGateway, and its report to the tracker.                   *)
(***************************************************************************)
ReportingNext ==
    \/ ModeCallsModel
    \/ ModeGetsAnswer
    \/ ModeReports
    \/ TrackedGatewayReports

SpecReporting == InitReporting /\ [][ReportingNext]_vars

(***************************************************************************)
(* SpecRefine: refine() called up to MaxRefineCalls times in one process.  *)
(***************************************************************************)
RefineNext ==
    \/ \E input_text \in RefineInputs : refine(input_text)
    \/ RefineGetsAnswer
    \/ RefineRoundDone

SpecRefine == InitReporting /\ [][RefineNext]_vars

(***************************************************************************)
(* SpecBrainstorm: one run of brainstorm_parallel.                         *)
(***************************************************************************)
BrainstormNext ==
    \/ brainstorm_parallel
    \/ \E i \in DOMAIN BrainstormModels : BrainstormTaskStarts(i)
    \/ \E i \in DOMAIN BrainstormModels : BrainstormTaskReturns(i)
    \/ BrainstormSynthesizes
    \/ BrainstormReturns

SpecBrainstorm == InitReporting /\ [][BrainstormNext]_vars

(***************************************************************************)
(* Properties of the reservation, checked under SpecReserve.               *)
(***************************************************************************)
\* C31: budget is reserved before dispatch: over any sequence of
\* predict_and_reserve calls on one predictor, the maximum costs of the
\* approved queries add up to no more than monthly_budget minus the
\* current_monthly_spend the predictor was constructed with.
C31_ApprovedWithinBudget ==
    estimate.approved_cost
        <= budget.monthly_budget - budget.current_monthly_spend

(***************************************************************************)
(* Properties of CouncilGateway.call_model, checked under SpecGateway.     *)
(***************************************************************************)
\* C35: call_model calls a fallback alias only after a non-timeout request
\* failure on attempt 0. A request failure that follows timeout retries of
\* the same model (attempt > 0) ends the call with a failed response for
\* that model, and its fallback is not called.
C35_FallbackOnFirstAttemptOnly ==
    /\ \A i \in 1..Len(gw.log) :
          (gw.log[i].outcome = "reqfail" /\ gw.log[i].attempt > 0)
             => /\ i = Len(gw.log)
                /\ gw.pc = "done"
                /\ gw.result = GatewayResponse(FALSE, gw.log[i].model,
                                               "Request failed")
    /\ \A i \in 1..(Len(gw.log) - 1) :
          gw.log[i + 1].model # gw.log[i].model
             => /\ gw.log[i].outcome = "reqfail" /\ gw.log[i].attempt = 0
                /\ gw.log[i + 1].model
                      = FallbackOf(MODEL_FALLBACKS, gw.log[i].model)

\* a model that has a fallback timed out, was retried, and the retry failed
C35_Witness ==
    /\ gw.pc = "done"
    /\ Len(gw.log) >= 2
    /\ gw.log[Len(gw.log)].outcome = "reqfail"
    /\ gw.log[Len(gw.log)].attempt > 0
    /\ gw.log[Len(gw.log) - 1].outcome = "timeout"
    /\ FallbackOf(MODEL_FALLBACKS, gw.log[Len(gw.log)].model) # None

(***************************************************************************)
(* Properties of execute_diamond_debate, checked under SpecOrchestrator.   *)
(***************************************************************************)
\* C34: when the Architect step succeeds, the Auditor, Contextualist and
\* Judge calls are issued once each, in that order, each when the step
\* before it has ended (in success or in failure), with one step in flight
\* at a time; a failed Auditor or Contextualist does not abort the steps
\* after it.
C34_DebateStepsInOrder ==
    [][/\ ( /\ orch.pc \in {"architect", "auditor", "contextualist"}
            /\ orch'.pc # orch.pc
            /\ orch.pc = "architect"
                  => (calls[1].result.kind = "response"
                      /\ calls[1].result.success) )
          => /\ orch'.pc = DebateSteps[StepIndex(orch.pc) + 1]
             /\ Len(orch'.steps) = StepIndex(orch.pc)
             /\ calls'[1].pc = "request"
             /\ calls'[1].stack = <<Frame(DebateModels[StepIndex(orch.pc) + 1])>>
       /\ ( /\ orch'.pc \in {"auditor", "contextualist", "judge"}
            /\ orch'.pc # orch.pc )
          => /\ orch.pc = DebateSteps[StepIndex(orch'.pc) - 1]
             /\ calls[1].pc = "done"
       /\ orch'.pc \in {"architect", "auditor", "contextualist", "judge"}
          => \A w \in Workers \ {1} : calls'[w].pc = "idle"]_vars

\* C34, for steps that return a response: each step that returns, in
\* success or in failure, is followed by the call of the next step, and
\* the steps are called in order, one at a time.
C34_OrderWhenStepsReturn ==
    [][/\ ( /\ orch.pc \in {"architect", "auditor", "contextualist"}
            /\ orch'.pc # orch.pc
            /\ calls[1].result.kind = "response"
            /\ orch.pc = "architect" => calls[1].result.success )
          => /\ orch'.pc = DebateSteps[StepIndex(orch.pc) + 1]
             /\ Len(orch'.steps) = StepIndex(orch.pc)
             /\ calls'[1].pc = "request"
             /\ calls'[1].stack = <<Frame(DebateModels[StepIndex(orch.pc) + 1])>>
       /\ ( /\ orch'.pc \in {"auditor", "contextualist", "judge"}
            /\ orch'.pc # orch.pc )
          => /\ orch.pc = DebateSteps[StepIndex(orch'.pc) - 1]
             /\ calls[1].pc = "done"
       /\ orch'.pc \in {"architect", "auditor", "contextualist", "judge"}
          => \A w \in Workers \ {1} : calls'[w].pc = "idle"]_vars

(***************************************************************************)
(* Properties of the result of execute_diamond, checked under              *)
(* SpecOrchestrator.                                                       *)
(***************************************************************************)
\* results["total_cost"] added up over the stages of the result
StageCosts(stages) ==
    (IF "context" \in DOMAIN stages THEN stages["context"].total_cost ELSE 0)
  + (IF "deliberation" \in DOMAIN stages
     THEN stages["deliberation"].total_cost ELSE 0)
  + (IF "synthesis" \in DOMAIN stages
     THEN stages["synthesis"].total_cost ELSE 0)
  + (IF "ratification" \in DOMAIN stages
     THEN stages["ratification"].total_cost ELSE 0)

\* C36: when execute_diamond returns, the stage "ratification" is in the
\* result exactly when the ratification step was invoked; if it was,
\* final_recommendation is the verdict extracted from the ratification
\* output (UNCLEAR if the ratification call failed), and if it was not,
\* final_recommendation is the step-3 verdict; total_cost is the sum of
\* total_cost over the stages of the result.
C36_RatificationDecidesResult ==
    [][(orch'.result = "results" /\ orch.result # "results")
          => /\ "ratification" \in DOMAIN orch'.stages
                   <=> orch.pc = "ratification"
             /\ orch.pc = "ratification"
                   => orch'.final_recommendation =
                         IF orch'.opus_output.given
                         THEN extract_recommendation(orch'.opus_output.words)
                         ELSE "UNCLEAR"
             /\ orch.pc = "synthesis"
                   => orch'.final_recommendation =
                         extract_recommendation(orch'.content)
             /\ orch'.totals.total_cost = StageCosts(orch'.stages)]_vars

\* C36, for a ratification answered under the alias opus-synthesis or not
\* answered at all
C36_RatificationReadUnderItsAlias ==
    [][(orch'.result = "results" /\ orch.result # "results")
          => /\ "ratification" \in DOMAIN orch'.stages
                   <=> orch.pc = "ratification"
             /\ ( /\ orch.pc = "ratification"
                  /\ orch'.opus_output.given
                        => HasModelContent(pool.result, "opus-synthesis") )
                   => orch'.final_recommendation =
                         IF orch'.opus_output.given
                         THEN extract_recommendation(orch'.opus_output.words)
                         ELSE "UNCLEAR"
             /\ orch.pc = "synthesis"
                   => orch'.final_recommendation =
                         extract_recommendation(orch'.content)
             /\ orch'.totals.total_cost = StageCosts(orch'.stages)]_vars

(***************************************************************************)
(* Properties of estimate_tier_cost, checked under SpecTierCost.           *)
(***************************************************************************)
\* a model with a price of its own: a search price, or a price of the
\* Pricing Table under its alias or its name
KnownToPricing(model) ==
    \/ model \in DOMAIN PERPLEXITY_PRICING
    \/ model \in DOMAIN COUNCIL_MODEL_ALIASES
    \/ model \in DOMAIN MODEL_PRICING

\* the sum the statement describes: the computed cost of a known model on
\* both sides, 0.01 and 0.05 dollars for an unknown one
RECURSIVE StatedCosts(_)
StatedCosts(models) ==
    IF models = <<>> THEN <<0, 0>>
    ELSE LET model == Head(models)
             rest == StatedCosts(Tail(models))
             known == ModelCost(model, query.input_tokens,
                                query.output_per_model, TRUE)
         IN IF KnownToPricing(model)
            THEN <<known[1] + rest[1], known[2] + rest[2]>>
            ELSE <<10000000 + rest[1], 50000000 + rest[2]>>

\* C33: estimate_tier_cost returns min_cost = max_cost when every model of
\* the list is known to the Pricing Table; every unknown alias adds exactly
\* 0.01 to the minimum and 0.05 to the maximum; min_cost <= max_cost in
\* every case.
C33_UnknownModelsWidenTheRange ==
    query.costs.made =>
        /\ query.costs.min_cost <= query.costs.max_cost
        /\ (\A i \in DOMAIN query.models : KnownToPricing(query.models[i]))
              => query.costs.min_cost = query.costs.max_cost
        /\ query.costs.min_cost = Round(StatedCosts(query.models)[1], 100000)
        /\ query.costs.max_cost = Round(StatedCosts(query.models)[2], 100000)

\* C33, the order of the two bounds alone
C33_MinNeverAboveMax ==
    query.costs.made => query.costs.min_cost <= query.costs.max_cost
(***************************************************************************)
(* Properties of call reporting, checked under SpecReporting.              *)
(***************************************************************************)
\* C32: when the tracker raises while a model call is recorded, the caller
\* still gets the response of the model call unchanged and no exception
\* leaves the function, for the mode functions and for
\* TrackedCouncilGateway.call_model.
C32_ReportingIsFireAndForget ==
    (mode.pc = "reported" /\ mode.tracking = "raised")
        => (~mode.raised /\ mode.returned = mode.response)

\* C32, for the mode functions alone: their report is inside
\* try / except Exception: pass.
C32_ModeFunctionsFireAndForget ==
    (mode.pc = "reported" /\ mode.fn \in ReportingModes)
        => (~mode.raised /\ mode.returned = mode.response)

(***************************************************************************)
(* Properties of the tracker, checked under SpecTracker.                   *)
(***************************************************************************)
InSeq(r, seq) == \E i \in DOMAIN seq : seq[i] = r

Copies(r, seq) == Cardinality({i \in DOMAIN seq : seq[i] = r})

\* the number of flushes that hold the record r
HeldBy(r) ==
    Cardinality({th \in FlushThreads : InSeq(r, tracker[th].records)})

\* C38: under any interleaving of track_api_call, the flush thread and
\* shutdown(), a record is in the hands of at most one flush at a time, and
\* never in a flush and in the queue at once; it is committed at most once;
\* the records of a failed write are back in the queue when the flush
\* ends; and while fewer than the queue's maximum were pending at each
\* track_api_call, every record is in the queue, in a flush or committed.
C38_FlushHandsEachRecordOnce ==
    \A r \in 1..tracker.enqueued :
        /\ HeldBy(r) + Copies(r, tracker.queue) <= 1
        /\ Copies(r, tracker.db) <= 1
        /\ Copies(r, tracker.db) = 1
              => HeldBy(r) + Copies(r, tracker.queue) = 0
        /\ ~tracker.overflowed
              => HeldBy(r) + Copies(r, tracker.queue)
                   + Copies(r, tracker.db) = 1

\* a write failed, its records went back to the queue, and with both the
\* flush thread and shutdown() through every record is committed
C38_Witness ==
    /\ ~tracker.overflowed
    /\ tracker.write_failures >= 1
    /\ tracker.enqueued = MaxRecords
    /\ Len(tracker.db) = MaxRecords
    /\ tracker.flush_thread.pc = "exit"
    /\ tracker.shutdown.pc = "done"

(***************************************************************************)
(* Properties of refine, checked under SpecRefine.                         *)
(***************************************************************************)
\* C37: for any sequence of refine() calls in one process, when a round of
\* a call fails (the model call or the quality gate), the rollback state
\* that call returns holds the input of that same call: its
\* rollback_state['original'], and its refined_output after a failed
\* quality gate, equal the input_text of the call.
C37_RollbackIsThisCallsInput ==
    (mode.fn = "refine" /\ mode.pc = "returned" /\ ~mode.result.success)
        => /\ mode.result.rollback_state.original = mode.input_text
           /\ mode.result.error = "Quality gate failed"
                 => mode.result.refined_output = mode.input_text

\* C37, for the first refine() call of the process: what it returns on a
\* failed round is its own input.
C37_FirstCallRollsBackToItsInput ==
    (mode.fn = "refine" /\ mode.pc = "returned" /\ ~mode.result.success
     /\ mode.refine_calls = 1)
        => /\ mode.result.rollback_state.original = mode.input_text
           /\ mode.result.error = "Quality gate failed"
                 => mode.result.refined_output = mode.input_text

(***************************************************************************)
(* Properties of brainstorm_parallel, checked under SpecBrainstorm.        *)
(***************************************************************************)
\* the place of the event of the model in the log, 0 when it is not there
LogIndex(event, model) ==
    IF \E k \in DOMAIN mode.log :
          mode.log[k] = [event |-> event, model |-> model]
    THEN CHOOSE k \in DOMAIN mode.log :
          mode.log[k] = [event |-> event, model |-> model]
    ELSE 0

\* the synthesizer is called after every model's task is done, with the
\* ideas of exactly the models that answered
SynthesisAfterAllSettled ==
    (mode.fn = "brainstorm" /\ mode.pc \in {"synthesis", "returned"})
        => /\ \A i \in DOMAIN BrainstormModels :
                 /\ mode.tasks[i].pc = "done"
                 /\ LogIndex("response", BrainstormModels[i]) > 0
                 /\ LogIndex("response", BrainstormModels[i])
                      < LogIndex("request", BrainstormSynthesizer)
           /\ mode.ideas_from = {i \in DOMAIN BrainstormModels :
                                    mode.tasks[i].result # None}

\* C39: brainstorm_parallel runs the models in parallel: the request of a
\* later model is issued before the response of the model before it has
\* returned; and the synthesizer is called only after all of them have
\* settled, with the failed models skipped.
C39_ModelsInFlightTogether ==
    /\ mode.fn = "brainstorm" =>
          \A i \in DOMAIN BrainstormModels :
              (i > 1 /\ LogIndex("request", BrainstormModels[i]) > 0)
                  => \/ LogIndex("response", BrainstormModels[i - 1]) = 0
                     \/ LogIndex("request", BrainstormModels[i])
                          < LogIndex("response", BrainstormModels[i - 1])
    /\ SynthesisAfterAllSettled

\* C39, the second half: the synthesizer is called only after all the
\* models have settled, with the failed models skipped.
C39_SynthesizerAfterAllSettled == SynthesisAfterAllSettled

\* C39, as the code has it: at most one model's request is in flight at
\* any time.
C39_OneRequestAtATime ==
    mode.fn = "brainstorm" =>
        Cardinality({i \in DOMAIN BrainstormModels :
                        mode.tasks[i].pc = "request"}) <= 1

====
